---- MODULE Spec2Model ----
(***************************************************************************)
(* Glyph: the argument type model (lib/types.ts), the Argument class       *)
(* registry, the parameter classifier and the chart factory                *)
(* (lib/createChart.tsx) and the Superset control-panel generator          *)
(* (lib/interfaces/superset.ts).                                           *)
(*                                                                         *)
(* JavaScript strings that the code inspects (parameter names, class       *)
(* names) are sequences of one-character strings, so that toLowerCase()    *)
(* and includes() are computed.  Strings the code only copies (labels,     *)
(* descriptions, control names) are TLA+ strings.                          *)
(***************************************************************************)
EXTENDS Integers, Sequences, FiniteSets, TLC

VARIABLES
    classes,    \* the classes that exist: <<[name, parent, own]>>, index = identity
    registry,   \* ArgumentClassRegistry: the Map as <<[key, cls]>> in insertion order
    renderFn,   \* the render function handed to createChart: its reflected parameters
    options,    \* options.arguments handed to createChart: <<[key, cls]>>
    throwAt,    \* where typescript-rtti throws while renderFn is reflected (NoThrow: nowhere)
    chart,      \* the GlyphChart createChart returned, or NoChart
    last        \* the last call made and what it returned

vars == <<classes, registry, renderFn, options, throwAt, chart, last>>

----------------------------------------------------------------------------
(* Bounds *)

MaxCreated == 2      \* classes created by with() in one behaviour
MaxParams == 2       \* parameters of a render function after dataFrame
MaxArgs == 2         \* entries of an explicit argument map
MaxDrops == 2        \* items delivered to one drop zone or chart

----------------------------------------------------------------------------
(* Strings as character sequences *)

Upper == <<"A","B","C","D","E","F","G","H","I","J","K","L","M",
           "N","O","P","Q","R","S","T","U","V","W","X","Y","Z">>
Lower == <<"a","b","c","d","e","f","g","h","i","j","k","l","m",
           "n","o","p","q","r","s","t","u","v","w","x","y","z">>

LowerChar(ch) ==
    IF \E i \in 1..Len(Upper) : Upper[i] = ch
    THEN Lower[CHOOSE i \in 1..Len(Upper) : Upper[i] = ch]
    ELSE ch

toLowerCase(s) == [i \in 1..Len(s) |-> LowerChar(s[i])]

includes(s, sub) ==
    \E i \in 0..(Len(s) - Len(sub)) : SubSeq(s, i + 1, i + Len(sub)) = sub

S_Argument == <<"A","r","g","u","m","e","n","t">>
S_Metric == <<"M","e","t","r","i","c">>
S_Dimension == <<"D","i","m","e","n","s","i","o","n">>
S_Temporal == <<"T","e","m","p","o","r","a","l">>
S_Int == <<"I","n","t">>
S_Color == <<"C","o","l","o","r">>
S_Palette == <<"P","a","l","e","t","t","e">>
S_FontSize == <<"F","o","n","t","S","i","z","e">>
S_FontColor == <<"F","o","n","t","C","o","l","o","r">>
S_Precision == <<"P","r","e","c","i","s","i","o","n">>
S_Anonymous == << >>

H_000000 == <<"#","0","0","0","0","0","0">>
H_1f77b4 == <<"#","1","f","7","7","b","4">>
H_ff7f0e == <<"#","f","f","7","f","0","e">>

N_dataFrame == <<"d","a","t","a","F","r","a","m","e">>
N_data == <<"d","a","t","a">>
N_metric == <<"m","e","t","r","i","c">>
N_size == <<"s","i","z","e">>
N_time == <<"t","i","m","e">>
N_theme == <<"t","h","e","m","e">>
N_width == <<"w","i","d","t","h">>
N_xAxis == <<"x","A","x","i","s">>
N_fill == <<"f","i","l","l">>
N_colorScheme == <<"c","o","l","o","r","S","c","h","e","m","e">>
N_fontColor == <<"f","o","n","t","C","o","l","o","r">>
N_series == <<"s","e","r","i","e","s">>
N_palette == <<"p","a","l","e","t","t","e">>
N_height == <<"h","e","i","g","h","t">>
N_hooks == <<"h","o","o","k","s">>
N_datasourceColumns == <<"d","a","t","a","s","o","u","r","c","e","C","o","l","u","m","n","s">>
N_font == <<"f","o","n","t">>
N_color == <<"c","o","l","o","r">>
N_colour == <<"c","o","l","o","u","r">>
N_stroke == <<"s","t","r","o","k","e">>
N_GlyphTheme == <<"G","l","y","p","h","T","h","e","m","e">>
N_Number == <<"N","u","m","b","e","r">>
N_Table == <<"T","a","b","l","e">>
N_colorMetric == <<"c","o","l","o","r","M","e","t","r","i","c">>

----------------------------------------------------------------------------
(* lib/types.ts: the Argument classes and their static fields *)

Null == "null"              \* the value null of a string-typed static
Undefined == "undefined"    \* reading a static no class of the chain defines

Fields == {"label", "description", "default", "min", "max"}

ArgumentC == 1
MetricC == 2
DimensionC == 3
TemporalC == 4
IntC == 5
ColorC == 6
PaletteC == 7
FontSizeBaseC == 8
FontSizeC == 9
FontColorBaseC == 10
FontColorC == 11
PrecisionBaseC == 12
PrecisionC == 13

NoStatics == [f \in {} |-> Undefined]

TypesClasses ==
    << [name |-> S_Argument, parent |-> 0,
        own |-> [types |-> <<"argument">>, label |-> Null, description |-> Null]],
       [name |-> S_Metric, parent |-> ArgumentC,
        own |-> [types |-> <<"metric">>, label |-> "Metric",
                 description |-> "A numeric aggregation (SUM, COUNT, AVG, etc.)"]],
       [name |-> S_Dimension, parent |-> ArgumentC,
        own |-> [types |-> <<"dimension">>, label |-> "Dimension",
                 description |-> "A categorical column for grouping data"]],
       [name |-> S_Temporal, parent |-> ArgumentC,
        own |-> [types |-> <<"temporal">>, label |-> "Time Column",
                 description |-> "A temporal column for time series data"]],
       [name |-> S_Int, parent |-> ArgumentC,
        own |-> [types |-> <<"argument">>, label |-> "Integer",
                 description |-> "A numeric value",
                 default |-> 48, min |-> 8, max |-> 128]],
       [name |-> S_Color, parent |-> ArgumentC,
        own |-> [types |-> <<"argument">>, label |-> "Color",
                 description |-> "A color value", default |-> H_000000]] >>

PaletteClass ==
    [name |-> S_Palette, parent |-> ArgumentC,
     own |-> [types |-> <<"argument">>, label |-> "Color Palette",
              description |-> "A color scheme"]]

RECURSIVE IsSubclass(_, _, _)
\* c === a || c.prototype instanceof a
IsSubclass(cs, c, a) ==
    IF c = 0 THEN FALSE
    ELSE IF c = a THEN TRUE
    ELSE IsSubclass(cs, cs[c].parent, a)

RECURSIVE HasStatic(_, _, _)
HasStatic(cs, c, f) ==
    IF c = 0 THEN FALSE
    ELSE IF f \in DOMAIN cs[c].own THEN TRUE
    ELSE HasStatic(cs, cs[c].parent, f)

RECURSIVE Static(_, _, _)
\* c.f: the own static, else the one inherited along the prototype chain
Static(cs, c, f) ==
    IF c = 0 THEN Undefined
    ELSE IF f \in DOMAIN cs[c].own THEN cs[c].own[f]
    ELSE Static(cs, cs[c].parent, f)

\* the with() a class offers, by the class of its chain that defines it
WithKind(cs, c) ==
    IF IsSubclass(cs, c, IntC) THEN "Int"
    ELSE IF IsSubclass(cs, c, ColorC) THEN "Color"
    ELSE IF IsSubclass(cs, c, DimensionC) THEN "Dimension"
    ELSE IF IsSubclass(cs, c, TemporalC) THEN "Temporal"
    ELSE "none"

WithFields(kind) ==
    CASE kind = "Int" -> {"label", "description", "default", "min", "max"}
      [] kind = "Color" -> {"label", "description", "default"}
      [] kind = "Dimension" -> {"label", "description"}
      [] kind = "Temporal" -> {"label", "description"}
      [] OTHER -> {}

\* a value || would skip although ?? keeps it: '' or 0
Falsy(kind, f, v) ==
    IF f \in {"label", "description"} THEN v = ""
    ELSE IF kind = "Color" THEN v = << >>
    ELSE v = 0

\* a variant of the field initialisers written with || instead of ??
OrElse(cs, base, o, f) ==
    IF f \in DOMAIN o /\ ~Falsy(WithKind(cs, base), f, o[f])
    THEN o[f]
    ELSE Static(cs, base, f)

\* options.f ?? Base.f
Coalesce(cs, base, o, f) ==
    IF f \in DOMAIN o THEN o[f] ELSE Static(cs, base, f)

\* a variant of with() that writes the options onto the class it is called on
WithInPlace(cs, base, o) ==
    [classes |->
        [cs EXCEPT ![base].own =
            [f \in DOMAIN cs[base].own \cup WithFields(WithKind(cs, base)) |->
                IF f \in WithFields(WithKind(cs, base))
                THEN Coalesce(cs, base, o, f)
                ELSE cs[base].own[f]]],
     result |-> base]

\* static with(options): `return class extends Base { static override f = ... }`
WithClass(cs, base, o) ==
    [classes |->
        Append(cs, [name |-> S_Anonymous, parent |-> base,
                    own |-> [f \in WithFields(WithKind(cs, base)) |->
                                Coalesce(cs, base, o, f)]]),
     result |-> Len(cs) + 1]

\* class FontSize extends Int.with({ label: 'Font Size', min: 12, max: 200, default: 48 }) {}
FancyBigNumberClasses(cs) ==
    LET c1 == WithClass(cs, IntC,
                [label |-> "Font Size", min |-> 12, max |-> 200, default |-> 48]).classes
        c2 == Append(c1, [name |-> S_FontSize, parent |-> FontSizeBaseC, own |-> NoStatics])
        c3 == WithClass(c2, ColorC,
                [label |-> "Font Color", default |-> H_1f77b4]).classes
        c4 == Append(c3, [name |-> S_FontColor, parent |-> FontColorBaseC, own |-> NoStatics])
        c5 == WithClass(c4, IntC,
                [label |-> "Decimal Places", min |-> 0, max |-> 10, default |-> 2]).classes
    IN  Append(c5, [name |-> S_Precision, parent |-> PrecisionBaseC, own |-> NoStatics])

LoadedClasses == FancyBigNumberClasses(Append(TypesClasses, PaletteClass))

NumLoaded == Len(LoadedClasses)

----------------------------------------------------------------------------
(* Option objects handed to with() *)

OptionValue(kind, f) ==
    CASE f = "label" -> "Size"
      [] f = "description" -> "How big"
      [] f = "default" -> IF kind = "Color" THEN H_ff7f0e ELSE 24
      [] f = "min" -> 12
      [] f = "max" -> 200

\* objects with no field, one field, two fields or every field that the options
\* type of the class declares, and the falsy values '' and 0
OptionObjects(kind) ==
    { [f \in S |-> OptionValue(kind, f)] :
        S \in { T \in SUBSET WithFields(kind) :
                  Cardinality(T) <= 2 \/ T = WithFields(kind) } }
    \cup { [f \in {"label"} |-> ""] }
    \cup (IF kind = "Int" THEN { [f \in {"default"} |-> 0] } ELSE {})

----------------------------------------------------------------------------
(* lib/createChart.tsx: the Argument class registry *)

UserMetricC == 14

\* a class of the chart author's module that is also named Metric
UserClass == [name |-> S_Metric, parent |-> DimensionC, own |-> NoStatics]

BuiltinRegistry ==
    << [key |-> S_Metric, cls |-> MetricC],
       [key |-> S_Dimension, cls |-> DimensionC],
       [key |-> S_Int, cls |-> IntC],
       [key |-> S_Color, cls |-> ColorC],
       [key |-> S_Argument, cls |-> ArgumentC] >>

\* Map.prototype.has / get / set on a Map kept as its entries in insertion order
MapHas(m, k) == \E i \in 1..Len(m) : m[i].key = k

MapGet(m, k) == m[CHOOSE i \in 1..Len(m) : m[i].key = k].cls

MapKeys(m) == { m[i].key : i \in 1..Len(m) }

\* a variant of set() that keeps the entry a key already has
MapSetIfAbsent(m, k, v) ==
    IF MapHas(m, k) THEN m ELSE Append(m, [key |-> k, cls |-> v])

MapSet(m, k, v) ==
    IF MapHas(m, k)
    THEN [i \in 1..Len(m) |-> IF m[i].key = k THEN [key |-> k, cls |-> v] ELSE m[i]]
    ELSE Append(m, [key |-> k, cls |-> v])

\* a variant that keeps the class first registered under a name
registerKeepFirst(cs, reg, c) == MapSetIfAbsent(reg, cs[c].name, c)

\* ArgumentClassRegistry.set(cls.name, cls)
registerArgumentClass(cs, reg, c) == MapSet(reg, cs[c].name, c)

----------------------------------------------------------------------------
(* What typescript-rtti reports for a render function *)

\* one member of a declared type: type.is('class'), classRef.reflectedClass?.class
\* (0: undefined, or a class that is not an Argument class), cls?.name, type.name
ClassT(cs, c) == [isClass |-> TRUE, cls |-> c, clsName |-> cs[c].name, typeName |-> << >>]
ForeignT(n) == [isClass |-> TRUE, cls |-> 0, clsName |-> n, typeName |-> << >>]
NamedT(n) == [isClass |-> FALSE, cls |-> 0, clsName |-> << >>, typeName |-> n]
UndefinedT == [isClass |-> FALSE, cls |-> 0, clsName |-> << >>, typeName |-> << >>]

\* parameters the charts of the repository declare
ChartParams(cs) ==
    { [name |-> N_metric, type |-> <<ClassT(cs, MetricC)>>],
      [name |-> N_size, type |-> <<ClassT(cs, FontSizeC)>>],
      [name |-> N_time, type |-> <<ClassT(cs, TemporalC)>>],
      [name |-> N_theme, type |-> <<NamedT(N_GlyphTheme), UndefinedT>>],
      [name |-> N_palette, type |-> <<ClassT(cs, PaletteC), UndefinedT>>] }

\* the scatter chart's width, parameters whose declared type carries no class,
\* parameters declared with the Metric of another module, alone or in a union,
\* and a parameter declared with a union of two Argument classes
OtherParams(cs) ==
    { [name |-> N_width, type |-> <<ForeignT(N_Number), UndefinedT>>],
      [name |-> N_xAxis, type |-> <<UndefinedT>>],
      [name |-> N_fill, type |-> <<UndefinedT>>],
      [name |-> N_colorScheme, type |-> <<UndefinedT>>],
      [name |-> N_fontColor, type |-> <<UndefinedT>>],
      [name |-> N_colorMetric, type |-> <<UndefinedT>>],
      [name |-> N_metric, type |-> <<ForeignT(S_Metric)>>],
      [name |-> N_series, type |-> <<ForeignT(S_Metric), ClassT(cs, DimensionC)>>],
      [name |-> N_series, type |-> <<ClassT(cs, MetricC), ClassT(cs, DimensionC)>>] }

\* the data table parameter, under the name every chart of the repository gives it
DataFrameParam == [name |-> N_dataFrame, type |-> <<ForeignT(N_Table)>>]

\* (data: Table, metric: Metric) => ...: the data table under another name
RenamedTableFn(cs) ==
    << [name |-> N_data, type |-> <<ForeignT(N_Table)>>],
       [name |-> N_metric, type |-> <<ClassT(cs, MetricC)>>] >>

RECURSIVE ParamLists(_, _)
\* the lists of 1..n of the charts' parameters
ParamLists(cs, n) ==
    IF n = 1 THEN { <<p>> : p \in ChartParams(cs) }
    ELSE LET shorter == ParamLists(cs, n - 1)
         IN  shorter \cup
             { Append(ps, p) : ps \in { q \in shorter : Len(q) = n - 1 },
                               p \in ChartParams(cs) }

DistinctNames(ps) == \A i, j \in 1..Len(ps) : i # j => ps[i].name # ps[j].name

\* (dataFrame: Table, ...args) => React.ReactNode
RenderFns(cs) ==
    { <<DataFrameParam>> \o ps :
        ps \in { q \in ParamLists(cs, MaxParams) : DistinctNames(q) }
               \cup { <<p>> : p \in OtherParams(cs) } }
    \cup { RenamedTableFn(cs) }

NoThrow == 0

\* reflection can throw in reflect() itself (1) or at parameter k (k in 2..Len(fn))
ThrowPoints(fn) == {NoThrow} \cup 1..Len(fn)

----------------------------------------------------------------------------
(* lib/createChart.tsx: extractArgumentsFromMetadata *)

\* a variant of the direct tier that asks the registry before the class identity
MemberClassRegistryFirst(cs, reg, m) ==
    IF m.isClass /\ m.clsName # << >> /\ MapHas(reg, m.clsName)
    THEN MapGet(reg, m.clsName)
    ELSE IF m.isClass /\ m.cls # 0 /\ IsSubclass(cs, m.cls, ArgumentC)
    THEN m.cls
    ELSE IF m.typeName # << >> /\ MapHas(reg, m.typeName)
    THEN MapGet(reg, m.typeName)
    ELSE 0

\* the class one member of the declared type resolves to, 0 when none
MemberClass(cs, reg, m) ==
    IF m.isClass /\ m.cls # 0 /\ IsSubclass(cs, m.cls, ArgumentC)
    THEN m.cls
    ELSE IF m.isClass /\ m.clsName # << >> /\ MapHas(reg, m.clsName)
    THEN MapGet(reg, m.clsName)
    ELSE IF m.typeName # << >> /\ MapHas(reg, m.typeName)
    THEN MapGet(reg, m.typeName)
    ELSE 0

\* for (const type of types) { ... break; }: the first member that resolves
DeclaredClass(cs, reg, type) ==
    IF \E i \in 1..Len(type) : MemberClass(cs, reg, type[i]) # 0
    THEN LET first == CHOOSE i \in 1..Len(type) :
                        /\ MemberClass(cs, reg, type[i]) # 0
                        /\ \A j \in 1..(i - 1) : MemberClass(cs, reg, type[j]) = 0
         IN  MemberClass(cs, reg, type[first])
    ELSE 0

\* a variant of the name tier in which the last matching entry wins
ConventionClassLast(reg, name) ==
    IF \E i \in 1..Len(reg) : includes(toLowerCase(name), toLowerCase(reg[i].key))
    THEN LET latest == CHOOSE i \in 1..Len(reg) :
                        /\ includes(toLowerCase(name), toLowerCase(reg[i].key))
                        /\ \A j \in (i + 1)..Len(reg) :
                             ~includes(toLowerCase(name), toLowerCase(reg[j].key))
         IN  reg[latest].cls
    ELSE 0

\* for (const [className, argClass] of ArgumentClassRegistry): first entry whose
\* lower-cased key is part of the lower-cased parameter name
ConventionClass(reg, name) ==
    IF \E i \in 1..Len(reg) : includes(toLowerCase(name), toLowerCase(reg[i].key))
    THEN LET first == CHOOSE i \in 1..Len(reg) :
                        /\ includes(toLowerCase(name), toLowerCase(reg[i].key))
                        /\ \A j \in 1..(i - 1) :
                             ~includes(toLowerCase(name), toLowerCase(reg[j].key))
         IN  reg[first].cls
    ELSE 0

\* common parameter name patterns: size/width/height/font -> Int, colours -> Color
PatternClass(name) ==
    LET paramLower == toLowerCase(name)
    IN  IF \/ includes(paramLower, N_size) \/ includes(paramLower, N_width)
           \/ includes(paramLower, N_height) \/ includes(paramLower, N_font)
        THEN IntC
        ELSE IF \/ includes(paramLower, N_color) \/ includes(paramLower, N_colour)
                \/ includes(paramLower, N_fill) \/ includes(paramLower, N_stroke)
        THEN ColorC
        ELSE 0

\* the class the loop body sets for one parameter, 0 when `found` stays false
ParamClass(cs, reg, p) ==
    LET declared == DeclaredClass(cs, reg, p.type)
        convention == ConventionClass(reg, p.name)
    IN  IF declared # 0 THEN declared
        ELSE IF convention # 0 THEN convention
        ELSE PatternClass(p.name)

\* if (paramName === 'dataFrame') continue;
Skipped(p) == p.name = N_dataFrame

RECURSIVE SelectNames(_, _)
\* names.push(paramName) for the parameters reached, in order
SelectNames(fn, upTo) ==
    IF upTo = 0 THEN << >>
    ELSE IF Skipped(fn[upTo]) THEN SelectNames(fn, upTo - 1)
    ELSE Append(SelectNames(fn, upTo - 1), fn[upTo].name)

RECURSIVE SelectArgs(_, _, _, _)
\* args.set(paramName, cls) for the parameters classified, in order
SelectArgs(cs, reg, fn, upTo) ==
    IF upTo = 0 THEN << >>
    ELSE LET cls == IF Skipped(fn[upTo]) THEN 0 ELSE ParamClass(cs, reg, fn[upTo])
         IN  IF cls = 0
             THEN SelectArgs(cs, reg, fn, upTo - 1)
             ELSE MapSet(SelectArgs(cs, reg, fn, upTo - 1), fn[upTo].name, cls)

\* try { for (...) {...} } catch (e) { console.warn(...) } return { names, args }:
\* a throw at parameter k comes after names.push(k) and before args.set(k)
extractArgumentsFromMetadata(cs, reg, fn, throw) ==
    IF throw = NoThrow
    THEN [names |-> SelectNames(fn, Len(fn)), args |-> SelectArgs(cs, reg, fn, Len(fn))]
    ELSE IF throw = 1
    THEN [names |-> << >>, args |-> << >>]
    ELSE [names |-> SelectNames(fn, throw), args |-> SelectArgs(cs, reg, fn, throw - 1)]

----------------------------------------------------------------------------
(* lib/createChart.tsx: createChart and the component it returns *)

NoChart == [exists |-> FALSE]

RECURSIVE MergeOverrides(_, _, _)
RECURSIVE MergeUnderneath(_, _, _)
\* a variant that lets the reflective result win over the explicit map
MergeUnderneath(args, overrides, upTo) ==
    IF upTo = 0 THEN args
    ELSE MapSetIfAbsent(MergeUnderneath(args, overrides, upTo - 1),
                        overrides[upTo].key, overrides[upTo].cls)

\* for (const [paramName, argClass] of Object.entries(options.arguments))
\*     extractedArgs.set(paramName, argClass)
MergeOverrides(args, overrides, upTo) ==
    IF upTo = 0 THEN args
    ELSE MapSet(MergeOverrides(args, overrides, upTo - 1),
                overrides[upTo].key, overrides[upTo].cls)

createChart(cs, reg, fn, opts, throw) ==
    LET extracted == extractArgumentsFromMetadata(cs, reg, fn, throw)
    IN  [exists |-> TRUE,
         metadata |-> [name |-> opts.name, description |-> opts.description],
         chartArguments |-> MergeOverrides(extracted.args, opts.arguments,
                                           Len(opts.arguments)),
         parameterNames |-> extracted.names,
         renderFn |-> fn]

\* argProps[paramName]: the bag's entry, undefined when it has none
Prop(props, name) ==
    IF name \in DOMAIN props THEN props[name] ELSE [absent |-> TRUE]

\* parameterNames.map(paramName => argProps[paramName])
ArgValues(names, props) == [i \in 1..Len(names) |-> Prop(props, names[i])]

\* ChartComponent(props): the arguments of the call renderFn(dataFrame, ...argValues)
ChartComponent(ch, props) ==
    <<Prop(props, N_dataFrame)>> \o ArgValues(ch.parameterNames, props)

----------------------------------------------------------------------------
(* lib/interfaces/superset.ts: controls *)

HexDigits == <<"0","1","2","3","4","5","6","7","8","9","a","b","c","d","e","f">>

\* the value of each digit [a-f\d] stands for
HexValues ==
    [d \in { HexDigits[i] : i \in 1..Len(HexDigits) } |->
        (CHOOSE i \in 1..Len(HexDigits) : HexDigits[i] = d) - 1]

IsHexDigit(ch) == LowerChar(ch) \in DOMAIN HexValues

HexValue(ch) == HexValues[LowerChar(ch)]

\* parseInt(two hex digits, 16)
ParseHexPair(s, at) == 16 * HexValue(s[at]) + HexValue(s[at + 1])

\* a variant of the conversion that also reads the three-digit shorthand
hexToRgbaShorthand(hex) ==
    LET body == IF Len(hex) >= 1 /\ hex[1] = "#" THEN Tail(hex) ELSE hex
    IN  IF Len(body) = 6 /\ \A i \in 1..6 : IsHexDigit(body[i])
        THEN [r |-> ParseHexPair(body, 1), g |-> ParseHexPair(body, 3),
              b |-> ParseHexPair(body, 5), a |-> 1]
        ELSE IF Len(body) = 3 /\ \A i \in 1..3 : IsHexDigit(body[i])
        THEN [r |-> 17 * HexValue(body[1]), g |-> 17 * HexValue(body[2]),
              b |-> 17 * HexValue(body[3]), a |-> 1]
        ELSE [r |-> 0, g |-> 0, b |-> 0, a |-> 1]

\* /^#?([a-f\d]{2})([a-f\d]{2})([a-f\d]{2})$/i, else black
hexToRgba(hex) ==
    LET body == IF Len(hex) >= 1 /\ hex[1] = "#" THEN Tail(hex) ELSE hex
    IN  IF Len(body) = 6 /\ \A i \in 1..6 : IsHexDigit(body[i])
        THEN [r |-> ParseHexPair(body, 1), g |-> ParseHexPair(body, 3),
              b |-> ParseHexPair(body, 5), a |-> 1]
        ELSE [r |-> 0, g |-> 0, b |-> 0, a |-> 1]

\* COLUMN_TYPE_TO_CONTROL[firstType] || 'TextControl'
ColumnTypeToControl(t) ==
    CASE t = "metric" -> "metric"
      [] t = "dimension" -> "groupby"
      [] t = "temporal" -> "granularity_sqla"
      [] t = "argument" -> "TextControl"
      [] OTHER -> "TextControl"

\* a variant that consults the class's types list before the Int, Color and
\* Palette checks
getControlForArgumentTypesFirst(cs, argClass) ==
    LET types == IF HasStatic(cs, argClass, "types")
                 THEN Static(cs, argClass, "types") ELSE <<"argument">>
        byType == IF Len(types) >= 1 THEN ColumnTypeToControl(types[1]) ELSE "TextControl"
    IN  IF byType # "TextControl" THEN byType
        ELSE IF IsSubclass(cs, argClass, IntC) THEN "SliderControl"
        ELSE IF IsSubclass(cs, argClass, ColorC) THEN "ColorPickerControl"
        ELSE IF IsSubclass(cs, argClass, PaletteC) THEN "color_scheme"
        ELSE "TextControl"

getControlForArgument(cs, argClass) ==
    IF IsSubclass(cs, argClass, IntC) THEN "SliderControl"
    ELSE IF IsSubclass(cs, argClass, ColorC) THEN "ColorPickerControl"
    ELSE IF IsSubclass(cs, argClass, PaletteC) THEN "color_scheme"
    ELSE LET types == IF HasStatic(cs, argClass, "types")
                      THEN Static(cs, argClass, "types") ELSE <<"argument">>
         IN  IF Len(types) >= 1 THEN ColumnTypeToControl(types[1]) ELSE "TextControl"

\* x || y for a string-typed static x
Truthy(v) == v # Null /\ v # Undefined /\ v # ""

getControlConfig(cs, argClass, paramName) ==
    LET label == IF Truthy(Static(cs, argClass, "label"))
                 THEN Static(cs, argClass, "label") ELSE paramName
        description == IF Truthy(Static(cs, argClass, "description"))
                       THEN Static(cs, argClass, "description") ELSE ""
    IN  IF IsSubclass(cs, argClass, IntC)
        THEN [type |-> "SliderControl", label |-> label, description |-> description,
              default |-> Static(cs, argClass, "default"),
              min |-> Static(cs, argClass, "min"),
              max |-> Static(cs, argClass, "max"),
              step |-> 1, renderTrigger |-> TRUE]
        ELSE IF IsSubclass(cs, argClass, ColorC)
        THEN [type |-> "ColorPickerControl", label |-> label, description |-> description,
              default |-> hexToRgba(Static(cs, argClass, "default")),
              renderTrigger |-> TRUE]
        ELSE IF IsSubclass(cs, argClass, PaletteC)
        THEN [type |-> "ColorSchemeControl", label |-> label, description |-> description,
              renderTrigger |-> TRUE]
        ELSE [type |-> "TextControl", label |-> label, description |-> description,
              renderTrigger |-> TRUE]

\* 'chartArguments' in chart && chart.chartArguments instanceof Map
getChartArguments(ch) == ch.chartArguments

\* a row of a section: a well-known host control, or {name, config}
HostControl(control) == [control |-> control]
CustomControl(cs, argClass, paramName) ==
    [name |-> paramName, config |-> getControlConfig(cs, argClass, paramName)]

RECURSIVE QueryRows(_, _, _)
\* the rows the loop pushes to queryControls, in map order
QueryRows(cs, args, upTo) ==
    IF upTo = 0 THEN << >>
    ELSE LET control == getControlForArgument(cs, args[upTo].cls)
         IN  IF control = "metric" \/ control = "groupby"
             THEN Append(QueryRows(cs, args, upTo - 1), <<HostControl(control)>>)
             ELSE QueryRows(cs, args, upTo - 1)

RECURSIVE CustomizeRows(_, _, _)
\* the rows the loop pushes to customizeControls, in map order
CustomizeRows(cs, args, upTo) ==
    IF upTo = 0 THEN << >>
    ELSE LET control == getControlForArgument(cs, args[upTo].cls)
         IN  IF control = "metric" \/ control = "groupby" \/ control = "granularity_sqla"
             THEN CustomizeRows(cs, args, upTo - 1)
             ELSE IF control = "color_scheme"
             THEN Append(CustomizeRows(cs, args, upTo - 1), <<HostControl("color_scheme")>>)
             ELSE Append(CustomizeRows(cs, args, upTo - 1),
                         <<CustomControl(cs, args[upTo].cls, args[upTo].key)>>)

hasTemporalArg(cs, args) ==
    \E i \in 1..Len(args) : getControlForArgument(cs, args[i].cls) = "granularity_sqla"

\* a variant that puts the filter row first in the Query section
generateControlPanelFilterFirst(cs, ch) ==
    LET args == getChartArguments(ch)
        query == <<<<HostControl("adhoc_filters")>>>> \o QueryRows(cs, args, Len(args))
        customize == CustomizeRows(cs, args, Len(args))
    IN  <<[label |-> "Query", expanded |-> TRUE, controlSetRows |-> query]>>
        \o (IF Len(customize) > 0
            THEN <<[label |-> "Customize", expanded |-> TRUE, controlSetRows |-> customize]>>
            ELSE << >>)

\* a variant that adds the two temporal rows after the rows pushed so far
generateControlPanelTemporalLast(cs, ch) ==
    LET args == getChartArguments(ch)
        pushed == QueryRows(cs, args, Len(args))
        shifted == IF hasTemporalArg(cs, args)
                   THEN pushed \o <<<<HostControl("x_axis")>>,
                                    <<HostControl("time_grain_sqla")>>>>
                   ELSE pushed
        query == Append(shifted, <<HostControl("adhoc_filters")>>)
        customize == CustomizeRows(cs, args, Len(args))
    IN  <<[label |-> "Query", expanded |-> TRUE, controlSetRows |-> query]>>
        \o (IF Len(customize) > 0
            THEN <<[label |-> "Customize", expanded |-> TRUE, controlSetRows |-> customize]>>
            ELSE << >>)

\* a variant that returns the Customize section also when it has no row
generateControlPanelAlwaysCustomize(cs, ch) ==
    LET args == getChartArguments(ch)
        pushed == QueryRows(cs, args, Len(args))
        unshifted == IF hasTemporalArg(cs, args)
                     THEN <<<<HostControl("x_axis")>>, <<HostControl("time_grain_sqla")>>>>
                          \o pushed
                     ELSE pushed
        query == Append(unshifted, <<HostControl("adhoc_filters")>>)
        customize == CustomizeRows(cs, args, Len(args))
    IN  <<[label |-> "Query", expanded |-> TRUE, controlSetRows |-> query],
          [label |-> "Customize", expanded |-> TRUE, controlSetRows |-> customize]>>

\* controlPanelSections of generateControlPanel(chart)
generateControlPanel(cs, ch) ==
    LET args == getChartArguments(ch)
        pushed == QueryRows(cs, args, Len(args))
        unshifted == IF hasTemporalArg(cs, args)
                     THEN <<<<HostControl("x_axis")>>, <<HostControl("time_grain_sqla")>>>>
                          \o pushed
                     ELSE pushed
        query == Append(unshifted, <<HostControl("adhoc_filters")>>)
        customize == CustomizeRows(cs, args, Len(args))
    IN  <<[label |-> "Query", expanded |-> TRUE, controlSetRows |-> query]>>
        \o (IF Len(customize) > 0
            THEN <<[label |-> "Customize", expanded |-> TRUE, controlSetRows |-> customize]>>
            ELSE << >>)

----------------------------------------------------------------------------
(* The library in use: registrations, chart creation, rendering, control panel *)

\* options without an explicit argument map, and with one that names a parameter
\* the render function may not have (xAxis) and one it may have (size)
OptionChoices ==
    { [name |-> "Glyph Chart", description |-> "", arguments |-> << >>],
      [name |-> "Glyph Chart",
       description |-> "A chart with explicit argument types",
       arguments |-> << [key |-> N_xAxis, cls |-> DimensionC],
                        [key |-> N_size, cls |-> PrecisionC] >>] }

\* classes user code hands to registerArgumentClass
Registrable == {MetricC, FontSizeBaseC, UserMetricC}

Init ==
    /\ classes = Append(LoadedClasses, UserClass)
    /\ registry = BuiltinRegistry
    /\ renderFn \in RenderFns(classes)
    /\ options \in OptionChoices
    /\ throwAt \in ThrowPoints(renderFn)
    /\ chart = NoChart
    /\ last = [op |-> "load"]

\* a variant of the registration that classifies the chart at hand again
RegisterAndReclassify(c) ==
    /\ registry' = registerArgumentClass(classes, registry, c)
    /\ chart' = IF chart.exists
                THEN createChart(classes, registry', renderFn, options, throwAt)
                ELSE chart
    /\ last' = [op |-> "register", cls |-> c]
    /\ UNCHANGED <<classes, renderFn, options, throwAt>>

RegisterArgumentClass(c) ==
    /\ registry' = registerArgumentClass(classes, registry, c)
    /\ last' = [op |-> "register", cls |-> c]
    /\ UNCHANGED <<classes, renderFn, options, throwAt, chart>>

CreateChart ==
    /\ chart' = createChart(classes, registry, renderFn, options, throwAt)
    /\ last' = [op |-> "createChart", registry |-> registry]
    /\ UNCHANGED <<classes, registry, renderFn, options, throwAt>>

\* the values a property bag can hold under a name
PropValue(name) == [value |-> name]

\* bags with the data table, any of the parameters, and the override names or none
PropertyBags ==
    { [n \in S \cup T \cup {N_dataFrame} |-> PropValue(n)] :
        S \in SUBSET { renderFn[i].name : i \in 2..Len(renderFn) },
        T \in { {}, MapKeys(options.arguments) } }

Render(props) ==
    /\ chart.exists
    /\ last' = [op |-> "render", props |-> props, call |-> ChartComponent(chart, props)]
    /\ UNCHANGED <<classes, registry, renderFn, options, throwAt, chart>>

GenerateControlPanel ==
    /\ chart.exists
    /\ last' = [op |-> "controlPanel", sections |-> generateControlPanel(classes, chart)]
    /\ UNCHANGED <<classes, registry, renderFn, options, throwAt, chart>>

Next ==
    \/ \E c \in Registrable : RegisterArgumentClass(c)
    \/ CreateChart
    \/ \E props \in PropertyBags : Render(props)
    \/ GenerateControlPanel

Spec == Init /\ [][Next]_vars

----------------------------------------------------------------------------
(* The type model on its own: with() and class declarations *)

InitTypes ==
    /\ classes = Append(TypesClasses, PaletteClass)
    /\ registry = << >>
    /\ renderFn = << >>
    /\ options = << >>
    /\ throwAt = NoThrow
    /\ chart = NoChart
    /\ last = [op |-> "load"]

TypesLoaded == Len(TypesClasses) + 1

\* A.with(o), A any class that offers with()
With(base, o) ==
    /\ Len(classes) < TypesLoaded + MaxCreated
    /\ WithKind(classes, base) # "none"
    /\ o \in OptionObjects(WithKind(classes, base))
    /\ classes' = WithClass(classes, base, o).classes
    /\ last' = [op |-> "with", base |-> base, options |-> o,
                result |-> WithClass(classes, base, o).result]
    /\ UNCHANGED <<registry, renderFn, options, throwAt, chart>>

\* class FontSize extends <a class with() returned> {}
Extend(base) ==
    /\ Len(classes) < TypesLoaded + MaxCreated
    /\ base > TypesLoaded
    /\ classes[base].name = S_Anonymous
    /\ classes' = Append(classes, [name |-> S_FontSize, parent |-> base, own |-> NoStatics])
    /\ last' = [op |-> "extend", base |-> base, result |-> Len(classes) + 1]
    /\ UNCHANGED <<registry, renderFn, options, throwAt, chart>>

NextTypes ==
    \/ \E base \in 1..Len(classes) :
         \E o \in OptionObjects(WithKind(classes, base)) : With(base, o)
    \/ \E base \in 1..Len(classes) : Extend(base)

SpecTypes == InitTypes /\ [][NextTypes]_vars

----------------------------------------------------------------------------
(* Properties of the classifier and the chart factory (Spec) *)

\* the parameters of renderFn the classifier reached and classified
Classified(i) ==
    /\ i \in 2..Len(renderFn)
    /\ throwAt = NoThrow \/ (throwAt # 1 /\ i < throwAt)

Overridden(name) == MapHas(options.arguments, name)

IsArgumentClass(m) == m.isClass /\ m.cls # 0 /\ IsSubclass(classes, m.cls, ArgumentC)

\* the member's class name or type name is non-empty and a key of the registry
NameRegistered(reg, m) ==
    \/ m.isClass /\ m.clsName # << >> /\ MapHas(reg, m.clsName)
    \/ m.typeName # << >> /\ MapHas(reg, m.typeName)

\* C1 as stated: a parameter one of whose declared type's members is an Argument
\* class is mapped to exactly that class, whatever the registry holds.
C1_AnyMemberWins ==
    last.op = "createChart" =>
        \A i \in 2..Len(renderFn) :
            Classified(i) /\ ~Overridden(renderFn[i].name) =>
                \A j \in 1..Len(renderFn[i].type) :
                    IsArgumentClass(renderFn[i].type[j]) =>
                        /\ MapHas(chart.chartArguments, renderFn[i].name)
                        /\ MapGet(chart.chartArguments, renderFn[i].name)
                             = renderFn[i].type[j].cls

\* C1 amended: the first member of the declared type that is an Argument class or
\* carries a registered name decides; when that member is an Argument class the
\* parameter is mapped to exactly that class, whatever the registry holds under
\* the class's name.
C1_FirstResolvingMemberWins ==
    last.op = "createChart" =>
        \A i \in 2..Len(renderFn) :
            Classified(i) /\ ~Overridden(renderFn[i].name) =>
                \A j \in 1..Len(renderFn[i].type) :
                    /\ IsArgumentClass(renderFn[i].type[j])
                    /\ \A k \in 1..(j - 1) :
                         /\ ~IsArgumentClass(renderFn[i].type[k])
                         /\ ~NameRegistered(last.registry, renderFn[i].type[k])
                    => /\ MapHas(chart.chartArguments, renderFn[i].name)
                       /\ MapGet(chart.chartArguments, renderFn[i].name)
                            = renderFn[i].type[j].cls

\* a chart whose parameter is declared Metric, created while another class is
\* registered under the name Metric
C1_Witness ==
    /\ last.op = "createChart"
    /\ throwAt = NoThrow
    /\ options.arguments = << >>
    /\ MapGet(last.registry, S_Metric) = UserMetricC
    /\ renderFn[2] = [name |-> N_metric, type |-> <<ClassT(classes, MetricC)>>]
    /\ MapGet(chart.chartArguments, N_metric) = MetricC

\* C2: every name of options.arguments is mapped to its override class, and every
\* entry of the reflective result under another name is kept.
C2_OverridesMergeOver ==
    last.op = "createChart" =>
        LET reflective == extractArgumentsFromMetadata(classes, last.registry,
                                                       renderFn, throwAt).args
        IN  /\ \A k \in 1..Len(options.arguments) :
                 /\ MapHas(chart.chartArguments, options.arguments[k].key)
                 /\ MapGet(chart.chartArguments, options.arguments[k].key)
                      = options.arguments[k].cls
            /\ \A k \in 1..Len(reflective) :
                 ~Overridden(reflective[k].key) =>
                    /\ MapHas(chart.chartArguments, reflective[k].key)
                    /\ MapGet(chart.chartArguments, reflective[k].key) = reflective[k].cls
            /\ MapKeys(chart.chartArguments)
                 = MapKeys(reflective) \cup MapKeys(options.arguments)

\* size was classified FontSize and overridden to Precision, metric was kept
C2_Witness ==
    /\ last.op = "createChart"
    /\ throwAt = NoThrow
    /\ Len(options.arguments) = 2
    /\ Len(renderFn) = 3
    /\ renderFn[2].name = N_metric
    /\ renderFn[3] = [name |-> N_size, type |-> <<ClassT(classes, FontSizeC)>>]
    /\ MapGet(chart.chartArguments, N_size) = PrecisionC
    /\ MapGet(chart.chartArguments, N_metric) = MetricC
    /\ MapGet(chart.chartArguments, N_xAxis) = DimensionC

FixedParameters ==
    {N_dataFrame, N_theme, N_width, N_height, N_hooks, N_datasourceColumns}

\* C3 as stated: no fixed parameter of the render function is classified.
C3_FixedNeverClassified ==
    chart.exists =>
        \A i \in 1..Len(renderFn) :
            renderFn[i].name \in FixedParameters =>
                ~MapHas(chart.chartArguments, renderFn[i].name)

\* what the positional call must be: the data table, then the bag's entry (or the
\* absent value) of every parameter after the first, in signature order
PositionalCall(props) ==
    [i \in 1..Len(renderFn) |->
        IF i = 1 THEN Prop(props, N_dataFrame) ELSE Prop(props, renderFn[i].name)]

\* C4 as stated: every invocation passes the data table and then one value per
\* declared parameter, in signature order, the absent value where the bag has no
\* entry.
C4_PositionalAlways ==
    last.op = "render" => last.call = PositionalCall(last.props)

BuiltinNames == {S_Metric, S_Dimension, S_Int, S_Color, S_Argument}

\* C5: the registry starts with the built-in classes; a registration puts the class
\* under its name and leaves every other entry alone, registering the class a name
\* already holds changes nothing, nothing else changes the registry, and no entry
\* is ever removed.
C5_LastWriterWins ==
    /\ registry = BuiltinRegistry
    /\ [][ /\ \A i \in 1..Len(registry) :
                i <= Len(registry') /\ registry'[i].key = registry[i].key
           /\ BuiltinNames \subseteq MapKeys(registry')
           /\ last'.op = "register" =>
                LET name == classes[last'.cls].name
                IN  /\ MapGet(registry', name) = last'.cls
                    /\ MapKeys(registry') = MapKeys(registry) \cup {name}
                    /\ \A i \in 1..Len(registry) :
                         registry[i].key # name => registry'[i] = registry[i]
                    /\ (MapHas(registry, name) /\ MapGet(registry, name) = last'.cls)
                         => registry' = registry
           /\ last'.op # "register" => registry' = registry
         ]_vars

\* the user's Metric class replaced the built-in one after another registration
C5_Witness ==
    /\ last = [op |-> "register", cls |-> UserMetricC]
    /\ MapGet(registry, S_Metric) = UserMetricC
    /\ MapHas(registry, S_Anonymous)
    /\ MapGet(registry, S_Anonymous) = FontSizeBaseC
    /\ Len(registry) = Len(BuiltinRegistry) + 1

\* C8 as stated: a chart created without overrides from a render function whose
\* reflection threw has an empty argument map.
C8_FailureGivesEmptyMap ==
    chart.exists /\ throwAt # NoThrow /\ options.arguments = << >> =>
        chart.chartArguments = << >>

Unresolvable(p) == p.type = <<UndefinedT>>

\* C9 as stated: with the built-in registry, xAxis without a resolvable type is
\* Temporal and colorScheme or fill without one is Color.
C9_KeywordConvention ==
    last.op = "createChart" /\ last.registry = BuiltinRegistry =>
        \A i \in 2..Len(renderFn) :
            Classified(i) /\ ~Overridden(renderFn[i].name) /\ Unresolvable(renderFn[i]) =>
                /\ renderFn[i].name = N_xAxis =>
                     /\ MapHas(chart.chartArguments, N_xAxis)
                     /\ MapGet(chart.chartArguments, N_xAxis) = TemporalC
                /\ renderFn[i].name \in {N_colorScheme, N_fill} =>
                     /\ MapHas(chart.chartArguments, renderFn[i].name)
                     /\ MapGet(chart.chartArguments, renderFn[i].name) = ColorC

----------------------------------------------------------------------------
(* Properties of the control panel (Spec) *)

MetricKind(c) == IsSubclass(classes, c, MetricC)
DimensionKind(c) == IsSubclass(classes, c, DimensionC)
TemporalKind(c) == IsSubclass(classes, c, TemporalC)

TemporalRows == { <<HostControl("x_axis")>>, <<HostControl("time_grain_sqla")>> }

\* C10: the Query section holds one row per Metric or Dimension argument, in map
\* order, and ends with the filter row; the Customize section holds one row per
\* argument that is not Metric, Dimension or Temporal, in map order.
C10_GroupingRule ==
    last.op = "controlPanel" =>
        LET args == chart.chartArguments
            data == SelectSeq(args, LAMBDA e : MetricKind(e.cls) \/ DimensionKind(e.cls))
            style == SelectSeq(args, LAMBDA e : /\ ~MetricKind(e.cls)
                                                /\ ~DimensionKind(e.cls)
                                                /\ ~TemporalKind(e.cls))
            query == last.sections[1].controlSetRows
            dataRows == SelectSeq(query, LAMBDA row : row \notin TemporalRows)
            customize == IF Len(last.sections) >= 2
                         THEN last.sections[2].controlSetRows ELSE << >>
        IN  /\ last.sections[1].label = "Query"
            /\ Len(last.sections) >= 2 => last.sections[2].label = "Customize"
            /\ Len(last.sections) <= 2
            /\ Len(dataRows) = Len(data) + 1
            /\ \A i \in 1..Len(data) :
                 dataRows[i] = IF MetricKind(data[i].cls)
                               THEN <<HostControl("metric")>>
                               ELSE <<HostControl("groupby")>>
            /\ query[Len(query)] = <<HostControl("adhoc_filters")>>
            /\ Len(customize) = Len(style)
            /\ \A i \in 1..Len(style) :
                 /\ Len(customize[i]) = 1
                 /\ \/ customize[i] = <<HostControl("color_scheme")>>
                    \/ /\ "name" \in DOMAIN customize[i][1]
                       /\ customize[i][1].name = style[i].key

\* a panel with a metric row, a groupby row, the filter row and a Customize row
C10_Witness ==
    /\ last.op = "controlPanel"
    /\ Len(last.sections) = 2
    /\ last.sections[1].controlSetRows
         = << <<HostControl("metric")>>, <<HostControl("groupby")>>,
              <<HostControl("adhoc_filters")>> >>
    /\ Len(last.sections[2].controlSetRows) = 1
    /\ last.sections[2].controlSetRows[1][1].name = N_size

----------------------------------------------------------------------------
(* Properties of the type model (SpecTypes) *)

\* C6: every field of A.with(o) is o's value when o supplies the field and A's
\* value otherwise, also when A is itself the result of with().
C6_InheritanceLaw ==
    last.op = "with" =>
        \A f \in Fields :
            Static(classes, last.result, f)
                = IF f \in DOMAIN last.options
                  THEN last.options[f]
                  ELSE Static(classes, last.base, f)

\* with() on a class that with() made: one field supplied, the label inherited
\* from the first call's options
C6_Witness ==
    /\ last.op = "with"
    /\ last.base > TypesLoaded
    /\ DOMAIN last.options = {"default"}
    /\ last.options["default"] = 0
    /\ Static(classes, last.result, "label") = "Size"
    /\ Static(classes, last.result, "min") = 8

\* C7: no step changes a class that exists, and with() returns a class that did
\* not exist before, other than its base.
C7_NeverMutates ==
    [][ /\ Len(classes') >= Len(classes)
        /\ \A c \in 1..Len(classes) : classes'[c] = classes[c]
        /\ last'.op = "with" =>
             /\ last'.result \notin 1..Len(classes)
             /\ last'.result # last'.base
             /\ last'.result \in 1..Len(classes')
      ]_vars

\* a second with() with options, on the class the first one returned
C7_Witness ==
    /\ last.op = "with"
    /\ last.base = TypesLoaded + 1
    /\ last.result = TypesLoaded + 2
    /\ DOMAIN last.options = {"label", "max"}
    /\ Static(classes, last.base, "label") = ""
    /\ Static(classes, last.result, "label") = "Size"

----------------------------------------------------------------------------
(* lib/interfaces/superset.ts: form values and their conversions *)

(* A JavaScript value of the form data is a record tagged by its type:        *)
(*   [t |-> "undefined"], [t |-> "null"], [t |-> "number", n |-> 24],         *)
(*   [t |-> "string", s |-> "revenue"] for a string the code only copies,     *)
(*   [t |-> "chars", c |-> <<"3","6">>] for a string the code parses,         *)
(*   [t |-> "object", label |-> v], [t |-> "rgba", r, g, b, a],               *)
(*   [t |-> "array", items |-> <<v, ...>>].                                   *)

Absent == [t |-> "undefined"]

\* what || and && take for true
JsTruthy(v) ==
    CASE v.t \in {"undefined", "null"} -> FALSE
      [] v.t = "string" -> v.s # ""
      [] v.t = "chars" -> v.c # << >>
      [] v.t = "number" -> v.n # 0
      [] OTHER -> TRUE

\* x ?? y
Nullish(v) == v.t \in {"undefined", "null"}

RECURSIVE ToRadix(_, _)
\* n.toString(radix) for a natural number n, radix 10 or 16
ToRadix(n, radix) ==
    IF n < radix THEN <<HexDigits[n + 1]>>
    ELSE Append(ToRadix(n \div radix, radix), HexDigits[(n % radix) + 1])

\* a variant of toHex without the padding
toHexUnpadded(n) == ToRadix(n, 16)

\* n.toString(16).padStart(2, '0')
toHex(n) == IF Len(ToRadix(n, 16)) < 2 THEN <<"0">> \o ToRadix(n, 16) ELSE ToRadix(n, 16)

\* `#${toHex(rgba.r)}${toHex(rgba.g)}${toHex(rgba.b)}`
rgbaToHex(rgba) == <<"#">> \o toHex(rgba.r) \o toHex(rgba.g) \o toHex(rgba.b)

IsDigit(ch) == \E i \in 1..10 : HexDigits[i] = ch

RECURSIVE DigitsValue(_, _, _)
\* the value of the longest run of decimal digits of s that starts at `at`,
\* acc so far; -1 when the run is empty
DigitsValue(s, at, acc) ==
    IF at <= Len(s) /\ IsDigit(s[at])
    THEN DigitsValue(s, at + 1, (IF acc < 0 THEN 0 ELSE 10 * acc) + HexValue(s[at]))
    ELSE acc

\* parseInt(s, 10) || 0: leading blanks, an optional sign, then digits; NaN gives 0
parseIntOrZero(s) ==
    LET blanks == IF \E i \in 1..Len(s) : s[i] # " "
                  THEN (CHOOSE i \in 1..Len(s) : s[i] # " " /\ \A j \in 1..(i - 1) : s[j] = " ") - 1
                  ELSE Len(s)
        signed == blanks < Len(s) /\ s[blanks + 1] \in {"-", "+"}
        digits == DigitsValue(s, blanks + (IF signed THEN 2 ELSE 1), -1)
    IN  IF digits < 0 THEN 0
        ELSE IF signed /\ s[blanks + 1] = "-" THEN 0 - digits
        ELSE digits

\* String(v)
JsString(v) ==
    CASE v.t \in {"string", "chars"} -> v
      [] v.t = "number" -> [t |-> "chars", c |-> ToRadix(v.n, 10)]
      [] v.t = "undefined" -> [t |-> "string", s |-> "undefined"]
      [] v.t = "null" -> [t |-> "string", s |-> "null"]
      [] OTHER -> [t |-> "string", s |-> "[object Object]"]

\* a variant that takes the last element of the array
LastItem(v) == IF v.t = "array" /\ Len(v.items) >= 1 THEN v.items[Len(v.items)] ELSE Absent

\* array[0]
FirstItem(v) == IF v.t = "array" /\ Len(v.items) >= 1 THEN v.items[1] ELSE Absent

\* a || b
JsOr(a, b) == IF JsTruthy(a) THEN a ELSE b

----------------------------------------------------------------------------
(* lib/interfaces/superset.ts: generateTransformProps *)

\* new argClass(value) for the classes that keep the constructor of Argument
NewArgument(argClass, value) == [cls |-> argClass, value |-> value]

\* new Int(value): value = String(value), numericValue = the number itself or
\* parseInt(value, 10) || 0
NewInt(argClass, v) ==
    [cls |-> argClass, value |-> JsString(v),
     numericValue |-> IF v.t = "number" THEN v.n
                      ELSE IF v.t = "chars" THEN parseIntOrZero(v.c)
                      ELSE 0]

\* formData[name] for the name of an argument
FormGet(formData, name) ==
    IF \E i \in 1..Len(formData.own) : formData.own[i].key = name
    THEN formData.own[CHOOSE i \in 1..Len(formData.own) : formData.own[i].key = name].value
    ELSE Absent

\* a variant of the Int branch written with || instead of ??
SliderValueOrElse(cs, formData, name, argClass) ==
    JsOr(FormGet(formData, name), [t |-> "number", n |-> Static(cs, argClass, "default")])

\* formData[name] ?? argClass.default ?? 32
SliderValue(cs, formData, name, argClass) ==
    IF Nullish(FormGet(formData, name))
    THEN [t |-> "number", n |-> IF HasStatic(cs, argClass, "default")
                                THEN Static(cs, argClass, "default") ELSE 32]
    ELSE FormGet(formData, name)

\* a variant of the metric branch that asks the metrics array first
MetricValueArrayFirst(formData) ==
    JsOr(IF JsTruthy(formData.metrics) THEN FirstItem(formData.metrics) ELSE formData.metrics,
         formData.metric)

\* formData.metric || (formData.metrics && formData.metrics[0])
MetricValue(formData) ==
    JsOr(formData.metric,
         IF JsTruthy(formData.metrics) THEN FirstItem(formData.metrics) ELSE formData.metrics)

\* typeof metricValue === 'string' ? metricValue : metricValue?.label || 'value'
MetricLabel(metricValue) ==
    IF metricValue.t \in {"string", "chars"} THEN metricValue
    ELSE IF metricValue.t = "object" /\ "label" \in DOMAIN metricValue
    THEN JsOr(metricValue.label, [t |-> "string", s |-> "value"])
    ELSE [t |-> "string", s |-> "value"]

\* a variant of the groupby branch that skips an empty groupby list
GroupbyListNonEmpty(formData) ==
    IF formData.groupby.t = "array" /\ Len(formData.groupby.items) > 0
    THEN formData.groupby
    ELSE JsOr(formData.columns, [t |-> "array", items |-> << >>])

\* formData.groupby || formData.columns || []
GroupbyList(formData) ==
    JsOr(formData.groupby, JsOr(formData.columns, [t |-> "array", items |-> << >>]))

\* a variant of the temporal branch that asks the legacy field first
TimeColumnLegacyFirst(formData) ==
    JsOr(formData.granularity_sqla,
         JsOr(formData.xAxis, JsOr(formData.x_axis, [t |-> "string", s |-> "__timestamp"])))

\* formData.xAxis || formData.x_axis || formData.granularity_sqla || '__timestamp'
TimeColumn(formData) ==
    JsOr(formData.xAxis,
         JsOr(formData.x_axis,
              JsOr(formData.granularity_sqla, [t |-> "string", s |-> "__timestamp"])))

\* a variant of the colour branch that passes a string through hexToRgba first
ColorValueNormalised(cs, formData, name, argClass) ==
    LET defaultRgba == [t |-> "rgba"] @@ hexToRgba(Static(cs, argClass, "default"))
        value == IF Nullish(FormGet(formData, name)) THEN defaultRgba
                 ELSE FormGet(formData, name)
    IN  IF value.t = "rgba" THEN [t |-> "chars", c |-> rgbaToHex(value)]
        ELSE IF value.t = "chars" THEN [t |-> "chars", c |-> rgbaToHex(hexToRgba(value.c))]
        ELSE [t |-> "chars", c |-> H_000000]

\* const value = formData[name] ?? hexToRgba(colorClass.default ?? '#000000'):
\* an object with r is converted, a string is taken as it is, else '#000000'
ColorValue(cs, formData, name, argClass) ==
    LET defaultRgba == [t |-> "rgba"] @@ hexToRgba(Static(cs, argClass, "default"))
        value == IF Nullish(FormGet(formData, name)) THEN defaultRgba
                 ELSE FormGet(formData, name)
    IN  IF value.t = "rgba" THEN [t |-> "chars", c |-> rgbaToHex(value)]
        ELSE IF value.t \in {"chars", "string"} THEN value
        ELSE [t |-> "chars", c |-> H_000000]

\* the body of `for (const [name, argClass] of args)`: the instance stored under
\* name, Absent when the branch stores nothing
ArgumentProp(cs, formData, name, argClass) ==
    LET control == getControlForArgument(cs, argClass)
    IN  CASE control = "metric" ->
               NewArgument(argClass, MetricLabel(MetricValue(formData)))
          [] control = "groupby" ->
               NewArgument(argClass,
                   JsOr(FirstItem(GroupbyList(formData)), [t |-> "string", s |-> ""]))
          [] control = "granularity_sqla" ->
               NewArgument(argClass, JsString(TimeColumn(formData)))
          [] control = "SliderControl" ->
               NewInt(argClass, SliderValue(cs, formData, name, argClass))
          [] control = "ColorPickerControl" ->
               NewArgument(argClass, ColorValue(cs, formData, name, argClass))
          [] control = "color_scheme" ->
               NewArgument(argClass,
                   JsOr(formData.color_scheme,
                        JsOr(formData.colorScheme,
                             [t |-> "string", s |-> "supersetColors"])))
          [] OTHER ->
               IF FormGet(formData, name).t # "undefined"
               THEN NewArgument(argClass, JsString(FormGet(formData, name)))
               ELSE Absent

\* const props = { dataFrame, theme, width, height, hooks, datasourceColumns }
HostProps == [k \in FixedParameters |-> [t |-> "host", of |-> k]]

RECURSIVE TransformArgs(_, _, _, _)
\* props after the first upTo arguments of the map were handled
TransformArgs(cs, formData, args, upTo) ==
    IF upTo = 0 THEN HostProps
    ELSE LET before == TransformArgs(cs, formData, args, upTo - 1)
             value == ArgumentProp(cs, formData, args[upTo].key, args[upTo].cls)
         IN  IF "t" \in DOMAIN value THEN before
             ELSE (args[upTo].key :> value) @@ before

\* generateTransformProps(chart)(chartProps): the props returned
generateTransformProps(cs, ch, formData) ==
    TransformArgs(cs, formData, getChartArguments(ch), Len(getChartArguments(ch)))

----------------------------------------------------------------------------
(* The Superset interface in use: charts with explicit argument maps *)

N_title == <<"t","i","t","l","e">>

BrandColorC == 15

\* Color.with({ default: '#FF7F0E' }): a default written in upper case
SupersetClasses ==
    WithClass(Append(LoadedClasses, UserClass), ColorC,
              [default |-> <<"#","F","F","7","F","0","E">>]).classes

\* the entries an explicit argument map is made of: every kind of control
ArgumentPool ==
    { [key |-> N_metric, cls |-> MetricC],
      [key |-> N_series, cls |-> DimensionC],
      [key |-> N_time, cls |-> TemporalC],
      [key |-> N_xAxis, cls |-> TemporalC],
      [key |-> N_size, cls |-> FontSizeC],
      [key |-> N_fill, cls |-> BrandColorC],
      [key |-> N_palette, cls |-> PaletteC],
      [key |-> N_title, cls |-> ArgumentC] }

RECURSIVE ArgumentMaps(_)
\* the maps of at most n entries of the pool, in every order, no key twice
ArgumentMaps(n) ==
    IF n = 0 THEN { << >> }
    ELSE LET shorter == ArgumentMaps(n - 1)
         IN  shorter \cup
             { Append(m, e) : m \in { q \in shorter : Len(q) = n - 1 },
                              e \in ArgumentPool }

DistinctKeys(m) == \A i, j \in 1..Len(m) : i # j => m[i].key # m[j].key

\* createChart('Glyph Chart', (dataFrame) => ..., { arguments: {...} })
InitSuperset ==
    /\ classes = SupersetClasses
    /\ registry = BuiltinRegistry
    /\ renderFn = <<DataFrameParam>>
    /\ options \in { [name |-> "Glyph Chart", description |-> "", arguments |-> m] :
                       m \in { q \in ArgumentMaps(MaxArgs) : DistinctKeys(q) } }
    /\ throwAt = NoThrow
    /\ chart = NoChart
    /\ last = [op |-> "load"]

\* a form in which the host has set nothing
EmptyForm ==
    [metric |-> Absent, metrics |-> Absent, groupby |-> Absent, columns |-> Absent,
     xAxis |-> Absent, x_axis |-> Absent, granularity_sqla |-> Absent,
     color_scheme |-> Absent, colorScheme |-> Absent, own |-> << >>]

Text(s) == [t |-> "string", s |-> s]
Chars(c) == [t |-> "chars", c |-> c]
Array(items) == [t |-> "array", items |-> items]

\* metric as a string, an empty string, an object with a label or with an empty
\* one, with metrics absent, empty, or starting with a string or an object
MetricForms ==
    { [EmptyForm EXCEPT !.metric = m, !.metrics = ms] :
        m \in { Absent, Text("revenue"), Text(""),
                [t |-> "object", label |-> Text("Revenue")],
                [t |-> "object", label |-> Text("")] },
        ms \in { Absent, Array(<<Text("count"), Text("total")>>),
                 Array(<<[t |-> "object", label |-> Text("Count")]>>) } }
    \cup { [EmptyForm EXCEPT !.metrics = Array(<< >>)] }

DimensionForms ==
    { [EmptyForm EXCEPT !.groupby = g, !.columns = c] :
        g \in { Absent, Array(<< >>), Array(<<Text("region"), Text("city")>>) },
        c \in { Absent, Array(<<Text("country")>>) } }

TemporalForms ==
    { [EmptyForm EXCEPT !.xAxis = a, !.x_axis = b, !.granularity_sqla = c] :
        a \in { Absent, Text("order_date"), Text("") },
        b \in { Absent, Text("ship_date") },
        c \in { Absent, Text("ds") } }

\* what the host can hold under the name of a slider
SizeValues ==
    { [t |-> "null"], [t |-> "number", n |-> 0], [t |-> "number", n |-> 24],
      Chars(<<"3","6">>), Chars(<<" ","1","2","p","x">>), Chars(<<"-","5">>),
      Chars(<<"a","b","c">>), Chars(<< >>) }

\* what the host can hold under the name of a colour picker
ColorValues ==
    { [t |-> "null"], [t |-> "number", n |-> 24],
      Chars(<<"#","A","B","C","D","E","F">>), Chars(<<"r","e","d">>),
      [t |-> "rgba", r |-> 31, g |-> 119, b |-> 180, a |-> 1],
      [t |-> "rgba", r |-> 255, g |-> 0, b |-> 9, a |-> 1] }

\* what the host can hold under the name of a text argument
TextValues ==
    { [t |-> "null"], [t |-> "number", n |-> 24], Chars(<<"a","b","c">>), Chars(<< >>) }

StyleForms ==
    { [EmptyForm EXCEPT !.own = <<[key |-> N_size, value |-> v]>>] : v \in SizeValues }
    \cup { [EmptyForm EXCEPT !.own = <<[key |-> N_fill, value |-> v]>>] :
             v \in ColorValues }
    \cup { [EmptyForm EXCEPT !.own = <<[key |-> N_title, value |-> v]>>] :
             v \in TextValues }

FormDatas == MetricForms \cup DimensionForms \cup TemporalForms \cup StyleForms

\* transformProps(chartProps) of the plugin made for the chart
TransformProps(formData) ==
    /\ chart.exists
    /\ last' = [op |-> "transformProps", formData |-> formData,
                props |-> generateTransformProps(classes, chart, formData)]
    /\ UNCHANGED <<classes, registry, renderFn, options, throwAt, chart>>

NextSuperset ==
    \/ CreateChart
    \/ GenerateControlPanel
    \/ \E formData \in FormDatas : TransformProps(formData)

SpecSuperset == InitSuperset /\ [][NextSuperset]_vars

----------------------------------------------------------------------------
(* Properties of the control panel (SpecSuperset) *)

HasKind(Kind(_)) ==
    \E i \in 1..Len(chart.chartArguments) : Kind(chart.chartArguments[i].cls)

StyleKind(c) == ~MetricKind(c) /\ ~DimensionKind(c) /\ ~TemporalKind(c)

RowsOf(section) == { section.controlSetRows[i] : i \in 1..Len(section.controlSetRows) }

\* C11: with a Temporal argument in the map the Query section starts with the
\* x_axis row and then the time_grain_sqla row, and neither row comes again in any
\* section; without one neither row is in any section.
C11_TemporalControls ==
    last.op = "controlPanel" =>
        LET query == last.sections[1].controlSetRows
            later == IF HasKind(TemporalKind) THEN 3 ELSE 1
        IN  /\ HasKind(TemporalKind) =>
                /\ Len(query) >= 2
                /\ query[1] = <<HostControl("x_axis")>>
                /\ query[2] = <<HostControl("time_grain_sqla")>>
            /\ \A i \in later..Len(query) : query[i] \notin TemporalRows
            /\ \A k \in 2..Len(last.sections) :
                 RowsOf(last.sections[k]) \cap TemporalRows = {}

\* a metric before a Temporal argument: the temporal rows still come first
C11_Witness ==
    /\ last.op = "controlPanel"
    /\ Len(chart.chartArguments) = 2
    /\ chart.chartArguments[1].cls = MetricC
    /\ chart.chartArguments[2].cls = TemporalC
    /\ last.sections[1].controlSetRows
         = << <<HostControl("x_axis")>>, <<HostControl("time_grain_sqla")>>,
              <<HostControl("metric")>>, <<HostControl("adhoc_filters")>> >>

\* C12: the panel has exactly one Query section, first and never empty, and a
\* Customize section exactly when some argument is not Metric, Dimension or
\* Temporal; a chart whose only argument is a Metric gets the one Query section
\* with the rows metric and adhoc_filters.
C12_SkeletonPanel ==
    last.op = "controlPanel" =>
        /\ Len(last.sections) >= 1
        /\ last.sections[1].label = "Query"
        /\ \A k \in 2..Len(last.sections) : last.sections[k].label # "Query"
        /\ Len(last.sections[1].controlSetRows) >= 1
        /\ HasKind(StyleKind) <=>
             \E k \in 1..Len(last.sections) : last.sections[k].label = "Customize"
        /\ (Len(chart.chartArguments) = 1 /\ MetricKind(chart.chartArguments[1].cls)) =>
             last.sections =
                <<[label |-> "Query", expanded |-> TRUE,
                   controlSetRows |-> << <<HostControl("metric")>>,
                                         <<HostControl("adhoc_filters")>> >>]>>

\* the panel of a chart whose only argument is metric: Metric
C12_Witness ==
    /\ last.op = "controlPanel"
    /\ chart.chartArguments = <<[key |-> N_metric, cls |-> MetricC]>>
    /\ Len(last.sections) = 1
    /\ Len(last.sections[1].controlSetRows) = 2

----------------------------------------------------------------------------
(* Properties of transformProps (SpecSuperset) *)

\* the positions of the argument map whose class is of the kind
ArgsOf(Kind(_)) ==
    { i \in 1..Len(chart.chartArguments) : Kind(chart.chartArguments[i].cls) }

\* the instance transformProps stored under the i-th argument's name
Produced(i) == last.props[chart.chartArguments[i].key]

IsStored(i) == chart.chartArguments[i].key \in DOMAIN last.props

\* C13 as stated: the metric field is used whenever it is present, a string
\* resolves to itself and an object to its label.
C13_PresentMetricWins ==
    last.op = "transformProps" =>
        \A i \in ArgsOf(MetricKind) :
            LET form == last.formData
                source == IF form.metric.t # "undefined" THEN form.metric
                          ELSE FirstItem(form.metrics)
            IN  source.t \in {"string", "object"} =>
                    /\ IsStored(i)
                    /\ Produced(i).cls = chart.chartArguments[i].cls
                    /\ Produced(i).value =
                         IF source.t = "string" THEN source ELSE source.label

\* C13: every Metric-kind argument gets an instance of its own class whose value
\* is resolved from the metric field when that field is neither missing nor
\* empty, otherwise from the first element of metrics; a string resolves to
\* itself, an object to its non-empty label, anything else to 'value'; metric =
\* "revenue" yields "revenue" whatever metrics holds.
C13_MetricExtraction ==
    last.op = "transformProps" =>
        \A i \in ArgsOf(MetricKind) :
            LET form == last.formData
                source == IF JsTruthy(form.metric) THEN form.metric
                          ELSE FirstItem(form.metrics)
            IN  /\ IsStored(i)
                /\ Produced(i).cls = chart.chartArguments[i].cls
                /\ Produced(i).value =
                     IF source.t = "string" THEN source
                     ELSE IF source.t = "object" /\ JsTruthy(source.label)
                     THEN source.label
                     ELSE Text("value")
                /\ form.metric = Text("revenue") => Produced(i).value = Text("revenue")

\* an empty metric field next to a metrics array: the array's first element is used
C13_Witness ==
    /\ last.op = "transformProps"
    /\ last.formData.metric = Text("")
    /\ last.formData.metrics = Array(<<Text("count"), Text("total")>>)
    /\ \E i \in ArgsOf(MetricKind) : Produced(i) = NewArgument(MetricC, Text("count"))

\* C14: every Dimension-kind argument gets an instance of its own class whose
\* value is the first element of groupby, or of columns when groupby is absent,
\* and the empty string when that list has no first element.
C14_DimensionExtraction ==
    last.op = "transformProps" =>
        \A i \in ArgsOf(DimensionKind) :
            LET form == last.formData
                list == IF form.groupby.t # "undefined" THEN form.groupby ELSE form.columns
            IN  /\ IsStored(i)
                /\ Produced(i).cls = chart.chartArguments[i].cls
                /\ Produced(i).value =
                     IF list.t = "array" /\ Len(list.items) >= 1 THEN list.items[1]
                     ELSE Text("")

\* an empty groupby next to a filled columns: the value is the empty string
C14_Witness ==
    /\ last.op = "transformProps"
    /\ last.formData.groupby = Array(<< >>)
    /\ last.formData.columns = Array(<<Text("country")>>)
    /\ \E i \in ArgsOf(DimensionKind) : Produced(i) = NewArgument(DimensionC, Text(""))

\* C15 as stated: the value is the first of xAxis, x_axis, granularity_sqla that
\* is present, and '__timestamp' when none is.
C15_FirstPresentWins ==
    last.op = "transformProps" =>
        \A i \in ArgsOf(TemporalKind) :
            LET form == last.formData
            IN  /\ IsStored(i)
                /\ Produced(i).value =
                     IF form.xAxis.t # "undefined" THEN JsString(form.xAxis)
                     ELSE IF form.x_axis.t # "undefined" THEN JsString(form.x_axis)
                     ELSE IF form.granularity_sqla.t # "undefined"
                     THEN JsString(form.granularity_sqla)
                     ELSE Text("__timestamp")

\* C15: every Temporal-kind argument gets an instance of its own class whose
\* value is the string form of the first of xAxis, x_axis, granularity_sqla that
\* is neither missing nor empty, and '__timestamp' when none is.
C15_TemporalExtraction ==
    last.op = "transformProps" =>
        \A i \in ArgsOf(TemporalKind) :
            LET form == last.formData
            IN  /\ IsStored(i)
                /\ Produced(i).cls = chart.chartArguments[i].cls
                /\ Produced(i).value =
                     IF JsTruthy(form.xAxis) THEN JsString(form.xAxis)
                     ELSE IF JsTruthy(form.x_axis) THEN JsString(form.x_axis)
                     ELSE IF JsTruthy(form.granularity_sqla)
                     THEN JsString(form.granularity_sqla)
                     ELSE Text("__timestamp")

\* an empty xAxis next to x_axis and granularity_sqla: x_axis is used
C15_Witness ==
    /\ last.op = "transformProps"
    /\ last.formData.xAxis = Text("")
    /\ last.formData.x_axis = Text("ship_date")
    /\ last.formData.granularity_sqla = Text("ds")
    /\ \E i \in ArgsOf(TemporalKind) : Produced(i) = NewArgument(TemporalC, Text("ship_date"))

ColorKind(c) == IsSubclass(classes, c, ColorC)

\* '#' and six hexadecimal digits
IsHexString(v) ==
    /\ v.t = "chars"
    /\ Len(v.c) = 7
    /\ v.c[1] = "#"
    /\ \A k \in 2..7 : IsHexDigit(v.c[k])

\* C16 as stated: the value of a Color-kind instance is always a hex string.
C16_AlwaysHex ==
    last.op = "transformProps" =>
        \A i \in ArgsOf(ColorKind) : IsStored(i) /\ IsHexString(Produced(i).value)

\* C16: every Color-kind argument named p gets an instance of its own class; with
\* no value under p (missing or null) its value is the class's default converted
\* to RGBA and back, with an object of r, g, b, a fields it is that object's hex
\* conversion, with a string it is that string as it stands, and with anything
\* else '#000000'; the value is a hex string unless the form held a string.
C16_ColorExtraction ==
    last.op = "transformProps" =>
        \A i \in ArgsOf(ColorKind) :
            LET given == FormGet(last.formData, chart.chartArguments[i].key)
                default == Static(classes, chart.chartArguments[i].cls, "default")
            IN  /\ IsStored(i)
                /\ Produced(i).cls = chart.chartArguments[i].cls
                /\ given.t \in {"undefined", "null"} =>
                     Produced(i).value = Chars(rgbaToHex(hexToRgba(default)))
                /\ given.t = "rgba" => Produced(i).value = Chars(rgbaToHex(given))
                /\ given.t \in {"chars", "string"} => Produced(i).value = given
                /\ given.t = "number" => Produced(i).value = Chars(H_000000)
                /\ given.t \notin {"chars", "string"} => IsHexString(Produced(i).value)

\* the colour name 'red' under the argument's name: the value is 'red'
C16_Witness ==
    /\ last.op = "transformProps"
    /\ FormGet(last.formData, N_fill) = Chars(<<"r","e","d">>)
    /\ \E i \in ArgsOf(ColorKind) :
         /\ chart.chartArguments[i].key = N_fill
         /\ Produced(i) = NewArgument(BrandColorC, Chars(<<"r","e","d">>))

\* nothing under the argument's name: the default '#FF7F0E' comes back as '#ff7f0e'
C16_DefaultWitness ==
    /\ last.op = "transformProps"
    /\ FormGet(last.formData, N_fill) = Absent
    /\ \E i \in ArgsOf(ColorKind) :
         Produced(i).value = Chars(<<"#","f","f","7","f","0","e">>)

IntKind(c) == IsSubclass(classes, c, IntC)

\* C17: every Int-kind argument named p gets an instance built from the form's
\* value under p when the form has one, the value 0 included, and from the
\* class's default when it has none (missing or null); a number is its own
\* numericValue, a string is parsed, and a string that does not parse gives 0.
C17_NumericExtraction ==
    last.op = "transformProps" =>
        \A i \in ArgsOf(IntKind) :
            LET given == FormGet(last.formData, chart.chartArguments[i].key)
                default == Static(classes, chart.chartArguments[i].cls, "default")
            IN  /\ IsStored(i)
                /\ Produced(i).cls = chart.chartArguments[i].cls
                /\ given.t \in {"undefined", "null"} =>
                     /\ Produced(i).numericValue = default
                     /\ Produced(i).value = Chars(ToRadix(default, 10))
                /\ given.t = "number" =>
                     /\ Produced(i).numericValue = given.n
                     /\ Produced(i).value = Chars(ToRadix(given.n, 10))
                /\ given.t = "chars" =>
                     /\ Produced(i).value = given
                     /\ given.c = <<"3","6">> => Produced(i).numericValue = 36
                     /\ given.c = <<" ","1","2","p","x">> => Produced(i).numericValue = 12
                     /\ given.c = <<"-","5">> => Produced(i).numericValue = 0 - 5
                     /\ given.c \in { <<"a","b","c">>, << >> } =>
                          Produced(i).numericValue = 0

\* the number 0 under the argument's name: the instance holds 0, not the default
C17_Witness ==
    /\ last.op = "transformProps"
    /\ FormGet(last.formData, N_size) = [t |-> "number", n |-> 0]
    /\ \E i \in ArgsOf(IntKind) :
         /\ chart.chartArguments[i].key = N_size
         /\ Produced(i).numericValue = 0
         /\ Produced(i).value = Chars(<<"0">>)
         /\ Static(classes, chart.chartArguments[i].cls, "default") # 0

\* a string that is no number under the argument's name: numericValue is 0
C17_MalformedWitness ==
    /\ last.op = "transformProps"
    /\ FormGet(last.formData, N_size) = Chars(<<"a","b","c">>)
    /\ \E i \in ArgsOf(IntKind) : Produced(i).numericValue = 0

----------------------------------------------------------------------------
(* The colour conversions applied to chosen colours *)

\* channel values: one and two hexadecimal digits, the ends of the range
Channels == {0, 9, 16, 170, 255}

\* RGBA objects: every value of one channel, and every mix of the chosen ones
Rgbas ==
    { [r |-> n, g |-> 0, b |-> 255, a |-> 1] : n \in 0..255 }
    \cup { [r |-> x, g |-> y, b |-> z, a |-> 1] : x \in Channels, y \in Channels, z \in Channels }
    \cup { [r |-> 0, g |-> 170, b |-> 255, a |-> 0] }

\* two hexadecimal digits in lower case
LowerPairs == { <<"0","0">>, <<"0","a">>, <<"f","0">>, <<"9","c">>, <<"f","f">> }

\* six lower-case digits, with and without the leading '#'
LowerHexes ==
    { prefix \o x \o y \o z :
        prefix \in { <<"#">>, << >> }, x \in LowerPairs, y \in LowerPairs, z \in LowerPairs }

\* six digits with letters in upper case
UpperHexes == { <<"#","F","F","7","F","0","E">>, <<"#","a","B","c","D","e","F">>,
                <<"A","B","C","D","E","F">> }

\* strings the pattern does not match: wrong length, shorthand, letters that are
\* no digits, blanks, a second '#', a '#' at the end, the empty string
MalformedHexes ==
    { << >>, <<"#">>, <<"#","f","f","f">>, <<"f","f","f">>, <<"#","1","2","3","4","5">>,
      <<"1","2","3","4","5">>, <<"#","1","2","3","4","5","6","7">>,
      <<"1","2","3","4","5","6","7">>, <<"#","g","g","g","g","g","g">>,
      <<"#","1","2","3","4","5","g">>, <<"r","e","d">>, <<"#","#","1","2","3","4","5","6">>,
      <<"1","2","3","4","5","6","#">>, <<" ","#","1","2","3","4","5","6">>,
      <<"#","1","2","3","4","5","6"," ">>, <<"#","1","2"," ","3","4","5">>,
      <<"0","x","1","2","3","4">> }

Hexes == LowerHexes \cup UpperHexes \cup MalformedHexes

\* a colour is chosen; nothing is converted yet
InitColor ==
    /\ classes = LoadedClasses
    /\ registry = BuiltinRegistry
    /\ renderFn = <<DataFrameParam>>
    /\ options = [name |-> "Glyph Chart", description |-> "", arguments |-> << >>]
    /\ throwAt = NoThrow
    /\ chart = NoChart
    /\ last \in { [op |-> "colour", origin |-> "rgba", given |-> c, rgba |-> c] :
                     c \in Rgbas }
              \cup { [op |-> "colour", origin |-> "hex", given |-> h, hex |-> h] :
                       h \in Hexes }

\* rgbaToHex(rgba) of the colour at hand
RgbaToHex ==
    /\ "rgba" \in DOMAIN last
    /\ last.op \in {"colour", "hexToRgba"}
    /\ last' = [op |-> "rgbaToHex", origin |-> last.origin, given |-> last.given,
                hex |-> rgbaToHex(last.rgba)]
    /\ UNCHANGED <<classes, registry, renderFn, options, throwAt, chart>>

\* hexToRgba(hex) of the colour at hand
HexToRgba ==
    /\ "hex" \in DOMAIN last
    /\ last.op \in {"colour", "rgbaToHex"}
    /\ last' = [op |-> "hexToRgba", origin |-> last.origin, given |-> last.given,
                rgba |-> hexToRgba(last.hex)]
    /\ UNCHANGED <<classes, registry, renderFn, options, throwAt, chart>>

NextColor == RgbaToHex \/ HexToRgba

SpecColor == InitColor /\ [][NextColor]_vars

----------------------------------------------------------------------------
(* Properties of the colour conversions (SpecColor) *)

LowerHexChars == {"0","1","2","3","4","5","6","7","8","9","a","b","c","d","e","f"}

UpperHexChars == {"A","B","C","D","E","F"}

\* the digits of a colour string: what follows its leading '#', if it has one
DigitsOf(h) == IF Len(h) >= 1 /\ h[1] = "#" THEN Tail(h) ELSE h

\* exactly six hexadecimal digits with an optional leading '#'
WellFormedHex(h) ==
    /\ Len(DigitsOf(h)) = 6
    /\ \A k \in 1..6 : DigitsOf(h)[k] \in LowerHexChars \cup UpperHexChars

\* six lower-case hexadecimal digits with an optional leading '#'
LowerCaseHex(h) ==
    /\ Len(DigitsOf(h)) = 6
    /\ \A k \in 1..6 : DigitsOf(h)[k] \in LowerHexChars

WellFormedRgba(c) == c.r \in 0..255 /\ c.g \in 0..255 /\ c.b \in 0..255 /\ c.a = 1

\* C18 as stated: every well-formed six-digit lower-case hex colour comes back
\* from hexToRgba and rgbaToHex as it was.
C18_EveryLowerHexReturns ==
    (last.op = "rgbaToHex" /\ last.origin = "hex" /\ LowerCaseHex(last.given))
        => last.hex = last.given

\* C18: hexToRgba(rgbaToHex(c)) = c for every RGBA c with channels in 0..255 and
\* alpha 1, and rgbaToHex(hexToRgba(h)) = h for every h made of '#' and six
\* lower-case hexadecimal digits; without the '#' the same colour comes back
\* with a '#' in front.
C18_RoundTrip ==
    /\ (last.op = "hexToRgba" /\ last.origin = "rgba" /\ WellFormedRgba(last.given))
          => last.rgba = last.given
    /\ (last.op = "rgbaToHex" /\ last.origin = "hex" /\ LowerCaseHex(last.given))
          => last.hex = <<"#">> \o DigitsOf(last.given)

\* a channel of one hexadecimal digit went through both conversions
C18_Witness ==
    /\ last.op = "hexToRgba"
    /\ last.origin = "rgba"
    /\ last.given = [r |-> 9, g |-> 0, b |-> 255, a |-> 1]
    /\ last.rgba = last.given

\* a lower-case colour with its '#' went through both conversions
C18_HexWitness ==
    /\ last.op = "rgbaToHex"
    /\ last.origin = "hex"
    /\ last.given = <<"#","0","a","9","c","f","f">>
    /\ last.hex = last.given

\* C19: for every string that is not six hexadecimal digits with an optional
\* leading '#', hexToRgba returns black with full opacity, which rgbaToHex
\* writes as '#000000'.
C19_MalformedIsBlack ==
    (last.origin = "hex" /\ ~WellFormedHex(last.given)) =>
        /\ last.op = "hexToRgba" => last.rgba = [r |-> 0, g |-> 0, b |-> 0, a |-> 1]
        /\ last.op = "rgbaToHex" => last.hex = H_000000

\* the three-digit shorthand was converted to black
C19_Witness ==
    /\ last.op = "hexToRgba"
    /\ last.origin = "hex"
    /\ last.given = <<"#","f","f","f">>
    /\ last.rgba = [r |-> 0, g |-> 0, b |-> 0, a |-> 1]

----------------------------------------------------------------------------
(* lib/interfaces/superset.ts: the query builder and the plugin *)

\* a variant of getVisualizationOnlyParams that forgets the text controls
getVisualizationOnlyParamsNoText(cs, ch) ==
    { getChartArguments(ch)[i].key : i \in
        { j \in 1..Len(getChartArguments(ch)) :
            getControlForArgument(cs, getChartArguments(ch)[j].cls)
                \in {"SliderControl", "ColorPickerControl", "color_scheme"} } }

\* the names of the arguments whose control is no query control
getVisualizationOnlyParams(cs, ch) ==
    { getChartArguments(ch)[i].key : i \in
        { j \in 1..Len(getChartArguments(ch)) :
            getControlForArgument(cs, getChartArguments(ch)[j].cls)
                \in {"SliderControl", "ColorPickerControl", "color_scheme", "TextControl"} } }

hasTemporalArgument(cs, ch) ==
    \E i \in 1..Len(getChartArguments(ch)) :
        getControlForArgument(cs, getChartArguments(ch)[i].cls) = "granularity_sqla"

hasDimensionArgument(cs, ch) ==
    \E i \in 1..Len(getChartArguments(ch)) :
        getControlForArgument(cs, getChartArguments(ch)[i].cls) = "groupby"

\* typeof m === 'string' || (typeof m === 'object' && m !== null && 'label' in m)
IsMetricEntry(m) ==
    \/ m.t \in {"string", "chars"}
    \/ m.t = "object" /\ "label" \in DOMAIN m

\* { ...formData } without the visualization-only keys and with the metrics
\* array filtered.  The keys of own are the keys the host sets besides the named
\* fields; no visualization-only argument of the model has the name of a named field.
CleanedFormData(cs, ch, formData) ==
    LET viz == getVisualizationOnlyParams(cs, ch)
        Kept(entry) == entry.key \notin viz
    IN  [formData EXCEPT
            !.own = SelectSeq(formData.own, Kept),
            !.metrics = IF formData.metrics.t = "array"
                        THEN Array(SelectSeq(formData.metrics.items, IsMetricEntry))
                        ELSE formData.metrics]

\* the callback handed to buildQueryContext, applied to a base query object
QueryCallback(cs, ch, formData, baseQueryObject) ==
    LET extras == ("allow_empty_query" :> TRUE) @@ baseQueryObject.extras
        xAxisColumn == [columnType |-> "BASE_AXIS", sqlExpression |-> formData.x_axis,
                        label |-> formData.x_axis, expressionType |-> "SQL",
                        isColumnReference |-> TRUE]
        axis == hasTemporalArgument(cs, ch) /\ JsTruthy(formData.x_axis)
        series == /\ axis
                  /\ hasDimensionArgument(cs, ch)
                  /\ JsTruthy(formData.groupby)
                  /\ Len(formData.groupby.items) > 0
    IN  << [extras |-> extras,
            columns |-> IF axis THEN <<xAxisColumn>> \o baseQueryObject.columns
                        ELSE baseQueryObject.columns,
            series_columns |-> IF series THEN formData.groupby
                               ELSE baseQueryObject.series_columns] >>

\* a variant of the returned function that cleans the caller's object itself
generateBuildQueryInPlace(cs, ch, formData, baseQueryObject) ==
    [passed |-> CleanedFormData(cs, ch, formData),
     caller |-> CleanedFormData(cs, ch, formData),
     queries |-> QueryCallback(cs, ch, formData, baseQueryObject)]

\* generateBuildQuery(chart, buildQueryContext)(formData): the form data passed
\* to buildQueryContext, the caller's object afterwards, and what the callback
\* returns for the base query object the host calls it with
generateBuildQuery(cs, ch, formData, baseQueryObject) ==
    [passed |-> CleanedFormData(cs, ch, formData),
     caller |-> formData,
     queries |-> QueryCallback(cs, ch, formData, baseQueryObject)]

\* a variant of makeChartPlugin that always adds buildQuery
makeChartPluginAlways(buildQueryContext) ==
    {"metadata", "loadChart", "controlPanel", "transformProps", "buildQuery"}

\* the keys of pluginConfig
makeChartPlugin(buildQueryContext) ==
    {"metadata", "loadChart", "controlPanel", "transformProps"}
        \cup (IF buildQueryContext THEN {"buildQuery"} ELSE {})

----------------------------------------------------------------------------
(* The plugin in use: makeChartPlugin and the buildQuery it exposes *)

N_datasource == <<"d","a","t","a","s","o","u","r","c","e">>

\* keys the host sets besides the named fields: values of styling controls and a
\* key that names no argument
OwnEntries ==
    { << >>,
      <<[key |-> N_size, value |-> [t |-> "number", n |-> 24]]>>,
      <<[key |-> N_datasource, value |-> Text("1__table")]>>,
      <<[key |-> N_title, value |-> Text("Sales")],
        [key |-> N_datasource, value |-> Text("1__table")]>>,
      <<[key |-> N_size, value |-> [t |-> "number", n |-> 24]],
        [key |-> N_datasource, value |-> Text("1__table")],
        [key |-> N_fill, value |-> [t |-> "rgba", r |-> 31, g |-> 119, b |-> 180, a |-> 1]],
        [key |-> N_palette, value |-> Text("d3Category10")]>> }

\* a metrics array with entries that are no metrics, an empty one, one of metrics
\* only, a value that is no array, none
MetricsValues ==
    { Absent, Array(<< >>), Text("count"),
      Array(<<Text("count"), [t |-> "object", label |-> Text("Count")]>>),
      Array(<<[t |-> "number", n |-> 24], Text("count"), [t |-> "null"],
              [t |-> "object", label |-> Text("Count")], [t |-> "object"]>>) }

QueryForms ==
    { [EmptyForm EXCEPT !.own = o, !.metric = Text("revenue")] : o \in OwnEntries }
    \cup { [EmptyForm EXCEPT !.metrics = ms, !.own = o] :
             ms \in MetricsValues,
             o \in { << >>, <<[key |-> N_size, value |-> [t |-> "number", n |-> 24]]>> } }
    \cup { [EmptyForm EXCEPT !.x_axis = x, !.groupby = g] :
             x \in { Absent, Text("order_date"), Text("") },
             g \in { Absent, Array(<< >>), Array(<<Text("region"), Text("city")>>) } }

\* the base query object the host hands to the callback
BaseQueries ==
    { [extras |-> << >>, columns |-> << >>, series_columns |-> Absent],
      [extras |-> [allow_empty_query |-> FALSE, where |-> TRUE],
       columns |-> <<[label |-> Text("country")]>>, series_columns |-> Absent] }

\* makeChartPlugin(chart, deps, options), with or without deps.buildQueryContext
MakeChartPlugin(buildQueryContext) ==
    /\ chart.exists
    /\ last' = [op |-> "plugin", supplied |-> buildQueryContext,
                config |-> makeChartPlugin(buildQueryContext)]
    /\ UNCHANGED <<classes, registry, renderFn, options, throwAt, chart>>

\* buildQuery(formData) of the plugin at hand, when it has one
BuildQuery(formData, baseQueryObject) ==
    /\ chart.exists
    /\ "config" \in DOMAIN last
    /\ "buildQuery" \in last.config
    /\ last' = [op |-> "buildQuery", supplied |-> last.supplied, config |-> last.config,
                formData |-> formData, baseQueryObject |-> baseQueryObject,
                result |-> generateBuildQuery(classes, chart, formData, baseQueryObject)]
    /\ UNCHANGED <<classes, registry, renderFn, options, throwAt, chart>>

NextQuery ==
    \/ CreateChart
    \/ \E buildQueryContext \in BOOLEAN : MakeChartPlugin(buildQueryContext)
    \/ \E formData \in QueryForms, baseQueryObject \in BaseQueries :
          BuildQuery(formData, baseQueryObject)

SpecQuery == InitSuperset /\ [][NextQuery]_vars

----------------------------------------------------------------------------
(* Properties of the query builder (SpecQuery) *)

\* the names of the arguments whose control is a slider, a colour picker, a
\* colour scheme or a text control
VisualizationKeys ==
    { chart.chartArguments[i].key : i \in
        { j \in 1..Len(chart.chartArguments) :
            getControlForArgument(classes, chart.chartArguments[j].cls)
                \notin {"metric", "groupby", "granularity_sqla"} } }

EntriesOf(seq) == { seq[i] : i \in 1..Len(seq) }

NamedFields ==
    {"metric", "groupby", "columns", "xAxis", "x_axis", "granularity_sqla",
     "color_scheme", "colorScheme"}

\* C20: the plugin has a buildQuery exactly when a query-context builder was
\* supplied; the form data buildQuery passes on has no key of a visualization-only
\* argument, has every other key of the input with its value, keeps of a metrics
\* array the strings and the objects with a label, in order, and the caller's
\* object is as it was.
C20_StripsVisualizationInput ==
    /\ last.op = "plugin" => ("buildQuery" \in last.config <=> last.supplied)
    /\ last.op = "buildQuery" =>
         LET form == last.formData
             passed == last.result.passed
         IN  /\ last.supplied
             /\ \A e \in EntriesOf(passed.own) : e.key \notin VisualizationKeys
             /\ \A e \in EntriesOf(form.own) :
                  e.key \notin VisualizationKeys => e \in EntriesOf(passed.own)
             /\ \A e \in EntriesOf(passed.own) : e \in EntriesOf(form.own)
             /\ \A f \in NamedFields : passed[f] = form[f]
             /\ form.metrics.t # "array" => passed.metrics = form.metrics
             /\ form.metrics.t = "array" =>
                  /\ passed.metrics.t = "array"
                  /\ \A m \in EntriesOf(passed.metrics.items) :
                       m.t = "string" \/ (m.t = "object" /\ "label" \in DOMAIN m)
                  /\ \A m \in EntriesOf(form.metrics.items) :
                       (m.t = "string" \/ (m.t = "object" /\ "label" \in DOMAIN m))
                           => m \in EntriesOf(passed.metrics.items)
                  /\ Len(passed.metrics.items) <= Len(form.metrics.items)
             /\ last.result.caller = form

\* a form with a slider value, a colour, a palette name and a data source, for a
\* chart with a slider and a colour argument: the slider value and the colour go
\* and the other two keys stay
C20_Witness ==
    /\ last.op = "buildQuery"
    /\ VisualizationKeys = {N_size, N_fill}
    /\ Len(last.formData.own) = 4
    /\ last.result.passed.own =
         <<[key |-> N_datasource, value |-> Text("1__table")],
           [key |-> N_palette, value |-> Text("d3Category10")]>>
    /\ last.result.caller = last.formData

\* a metrics array with a number, null and an object without label: they go
C20_MetricsWitness ==
    /\ last.op = "buildQuery"
    /\ last.formData.metrics.t = "array"
    /\ Len(last.formData.metrics.items) = 5
    /\ last.result.passed.metrics =
         Array(<<Text("count"), [t |-> "object", label |-> Text("Count")]>>)

\* C21 as stated: one query is returned; with a Temporal argument and a selected
\* time column its columns start with the BASE_AXIS descriptor of that column,
\* followed by the base query's columns; with a Dimension argument and a
\* non-empty groupby its series_columns is the groupby list; with neither kind of
\* argument columns and series_columns are the base query's; the extras keep
\* their entries and have allow_empty_query = true.
C21_InjectsAxisAndSeries ==
    last.op = "buildQuery" =>
        LET form == last.formData
            base == last.baseQueryObject
            queries == last.result.queries
            temporal == HasKind(TemporalKind)
            dimension == HasKind(DimensionKind)
        IN  /\ Len(queries) = 1
            /\ (temporal /\ JsTruthy(form.x_axis)) =>
                  /\ Len(queries[1].columns) = Len(base.columns) + 1
                  /\ queries[1].columns[1].columnType = "BASE_AXIS"
                  /\ queries[1].columns[1].sqlExpression = form.x_axis
                  /\ Tail(queries[1].columns) = base.columns
            /\ (dimension /\ form.groupby.t = "array" /\ Len(form.groupby.items) > 0) =>
                  queries[1].series_columns = form.groupby
            /\ (~temporal /\ ~dimension) =>
                  /\ queries[1].columns = base.columns
                  /\ queries[1].series_columns = base.series_columns
            /\ \A k \in DOMAIN base.extras \ {"allow_empty_query"} :
                  queries[1].extras[k] = base.extras[k]
            /\ queries[1].extras["allow_empty_query"] = TRUE

----------------------------------------------------------------------------
(* The life of a chart: every operation of the library on a chart made by
   reflection *)

LifecycleForms ==
    { EmptyForm,
      [EmptyForm EXCEPT !.metric = Text("revenue"), !.x_axis = Text("order_date"),
                        !.groupby = Array(<<Text("region")>>)],
      [EmptyForm EXCEPT !.own = <<[key |-> N_size, value |-> [t |-> "number", n |-> 24]],
                                  [key |-> N_width, value |-> [t |-> "number", n |-> 24]]>>] }

NextLifecycle ==
    \/ \E c \in Registrable : RegisterArgumentClass(c)
    \/ CreateChart
    \/ \E props \in PropertyBags : Render(props)
    \/ GenerateControlPanel
    \/ \E formData \in LifecycleForms : TransformProps(formData)
    \/ \E buildQueryContext \in BOOLEAN : MakeChartPlugin(buildQueryContext)
    \/ \E formData \in LifecycleForms, baseQueryObject \in BaseQueries :
          BuildQuery(formData, baseQueryObject)

SpecLifecycle == Init /\ [][NextLifecycle]_vars

----------------------------------------------------------------------------
(* Properties of the life of a chart (SpecLifecycle) *)

\* C22: once createChart has returned, a step that is no further createChart call
\* (rendering, generateControlPanel, transformProps, makeChartPlugin, buildQuery,
\* registerArgumentClass) leaves the chart's metadata and argument map as they are.
C22_ChartNeverMutated ==
    [][(chart.exists /\ last'.op # "createChart") =>
          /\ chart'.exists
          /\ chart'.metadata = chart.metadata
          /\ chart'.chartArguments = chart.chartArguments]_vars

\* a class was registered after the chart was made; a chart made now would be
\* classified otherwise, and the chart at hand is as it was made
C22_Witness ==
    /\ chart.exists
    /\ last.op = "register"
    /\ createChart(classes, registry, renderFn, options, throwAt).chartArguments
         # chart.chartArguments
    /\ createChart(classes, BuiltinRegistry, renderFn, options, throwAt).chartArguments
         = chart.chartArguments

----------------------------------------------------------------------------
(* src/App.tsx: the DropZone component *)

\* ACCEPT_TYPE_MAP[t], undefined for a type the map does not have
AcceptTypeMap(t) ==
    CASE t = "column" -> <<"column", "columnOption">>
      [] t = "metric" -> <<"metric", "metricOption">>
      [] t = "temporal" -> <<"column", "columnOption">>
      [] t = "filter" -> <<"filterOption">>
      [] OTHER -> << >>

RECURSIVE FlatMapAccept(_)
\* acceptTypes.flatMap(t => mapped types, or [t] when the map has none)
FlatMapAccept(types) ==
    IF types = << >> THEN << >>
    ELSE (IF Len(AcceptTypeMap(Head(types))) > 0 THEN AcceptTypeMap(Head(types))
          ELSE <<Head(types)>>) \o FlatMapAccept(Tail(types))

\* a variant of the validation that only asks whether acceptTypes was passed
AcceptTypesGiven(acceptTypes) == acceptTypes.given

\* !(!acceptTypes || acceptTypes.length === 0)
AcceptTypesValid(acceptTypes) == acceptTypes.given /\ Len(acceptTypes.types) # 0

\* convertToDragItem(item): null for an item without a value object
convertToDragItem(item) ==
    IF ~item.hasValue THEN [isNull |-> TRUE]
    ELSE [isNull |-> FALSE,
          type |-> IF item.type \in {"metric", "metricOption"} THEN "metric"
                   ELSE IF item.is_dttm THEN "temporal" ELSE "column",
          name |-> item.name,
          dataType |-> IF item.is_dttm THEN "temporal" ELSE "unknown"]

\* the canDrop callback handed to useDrop
CanDropItem(validator, item) ==
    IF validator = "none" THEN TRUE
    ELSE IF convertToDragItem(item).isNull THEN FALSE
    ELSE IF validator = "metricsOnly" THEN convertToDragItem(item).type = "metric"
    ELSE FALSE

\* DropZone(props): throws before useDrop is reached, or registers the drop
\* target with the accepted drag types
DropZone(zone) ==
    IF ~AcceptTypesValid(zone.acceptTypes)
    THEN [zone EXCEPT !.op = "render", !.threw = TRUE]
    ELSE [zone EXCEPT !.op = "render", !.registered = TRUE,
                      !.accept = IF Len(FlatMapAccept(zone.acceptTypes.types)) > 0
                                 THEN FlatMapAccept(zone.acceptTypes.types)
                                 ELSE zone.acceptTypes.types]

----------------------------------------------------------------------------
(* A drop zone in use: it is rendered and the host drops items on it *)

\* acceptTypes as the caller passes it: not at all, empty, or with types
AcceptTypeChoices ==
    { [given |-> FALSE, types |-> << >>],
      [given |-> TRUE, types |-> << >>],
      [given |-> TRUE, types |-> <<"metric">>],
      [given |-> TRUE, types |-> <<"column">>],
      [given |-> TRUE, types |-> <<"temporal", "filter">>],
      [given |-> TRUE, types |-> <<"column", "metric">>],
      [given |-> TRUE, types |-> <<"filter">>],
      [given |-> TRUE, types |-> <<"custom">>] }

\* what the host drags
HostItems ==
    { [type |-> "metric", hasValue |-> TRUE, is_dttm |-> FALSE, name |-> "revenue"],
      [type |-> "metricOption", hasValue |-> FALSE, is_dttm |-> FALSE, name |-> ""],
      [type |-> "column", hasValue |-> TRUE, is_dttm |-> FALSE, name |-> "region"],
      [type |-> "columnOption", hasValue |-> TRUE, is_dttm |-> TRUE, name |-> "ds"],
      [type |-> "filterOption", hasValue |-> TRUE, is_dttm |-> FALSE, name |-> "f"],
      [type |-> "custom", hasValue |-> TRUE, is_dttm |-> FALSE, name |-> "c"] }

InitDropZone ==
    /\ classes = LoadedClasses
    /\ registry = BuiltinRegistry
    /\ renderFn = <<DataFrameParam>>
    /\ options = [name |-> "Glyph Chart", description |-> "", arguments |-> << >>]
    /\ throwAt = NoThrow
    /\ chart = NoChart
    /\ last \in { [op |-> "mount", acceptTypes |-> a, validator |-> v, threw |-> FALSE,
                    registered |-> FALSE, accept |-> << >>, delivered |-> << >>] :
                     a \in AcceptTypeChoices, v \in {"none", "metricsOnly", "rejectAll"} }

\* React renders the component; after a throw it is not rendered again
RenderDropZone ==
    /\ ~last.threw
    /\ last' = DropZone(last)
    /\ UNCHANGED <<classes, registry, renderFn, options, throwAt, chart>>

\* the host drops an item of an accepted type that canDrop lets through
DropOnZone(item) ==
    /\ last.registered
    /\ \E i \in 1..Len(last.accept) : last.accept[i] = item.type
    /\ CanDropItem(last.validator, item)
    /\ Len(last.delivered) < MaxDrops
    /\ last' = [last EXCEPT !.op = "drop",
                             !.delivered = IF convertToDragItem(item).isNull THEN @
                                           ELSE Append(@, convertToDragItem(item))]
    /\ UNCHANGED <<classes, registry, renderFn, options, throwAt, chart>>

NextDropZone == RenderDropZone \/ \E item \in HostItems : DropOnZone(item)

SpecDropZone == InitDropZone /\ [][NextDropZone]_vars

----------------------------------------------------------------------------
(* Properties of the drop zone (SpecDropZone) *)

\* C23: a drop zone whose acceptTypes is missing or empty throws when it is
\* rendered, is never registered as a drop target and never has an item
\* delivered to onDrop; one with a non-empty acceptTypes never throws.
C23_FailsFast ==
    /\ (~last.acceptTypes.given \/ last.acceptTypes.types = << >>) =>
          /\ last.op # "mount" => last.threw
          /\ ~last.registered
          /\ last.delivered = << >>
    /\ (last.acceptTypes.given /\ last.acceptTypes.types # << >>) => ~last.threw

\* an empty acceptTypes array was rendered: the component threw
C23_Witness ==
    /\ last.op = "render"
    /\ last.acceptTypes = [given |-> TRUE, types |-> << >>]
    /\ last.threw
    /\ ~last.registered

----------------------------------------------------------------------------
(* charts/FancyBigNumber: the wrapper that tracks a pending metric drop *)

\* metricValue && metricValue !== 'value' && metricValue !== '': the value of
\* the expression, which is also the dependency of the effect
isMetricConfigured(metric) ==
    IF ~metric.given THEN "undefined"
    ELSE IF metric.value = "" THEN "''"
    ELSE IF metric.value = "value" THEN "false"
    ELSE "true"

NoPending == [isNull |-> TRUE, name |-> ""]

\* !pendingMetric is false only for a non-empty name
HasPending(w) == ~w.pendingMetric.isNull /\ w.pendingMetric.name # ""

\* the three returns of the component
FancyView(w) ==
    IF isMetricConfigured(w.metric) # "true" /\ ~HasPending(w) THEN "dropZone"
    ELSE IF HasPending(w) /\ isMetricConfigured(w.metric) # "true" THEN "pending"
    ELSE "chart"

\* a variant of the effect that runs after every render
ClearPendingAlways(w) ==
    [w EXCEPT !.deps = isMetricConfigured(w.metric),
              !.pendingMetric = IF isMetricConfigured(w.metric) = "true"
                                THEN NoPending ELSE @]

\* useEffect(() => { if (isMetricConfigured) setPendingMetric(null) },
\* [isMetricConfigured]): runs after the first render and after a render in which
\* the dependency differs from that of the previous render
ClearPendingEffect(w) ==
    IF w.deps = isMetricConfigured(w.metric) THEN w
    ELSE [w EXCEPT !.deps = isMetricConfigured(w.metric),
                   !.pendingMetric = IF isMetricConfigured(w.metric) = "true"
                                     THEN NoPending ELSE @]

\* render, effects, and the render a state change of the effect causes
Settle(w) == [ClearPendingEffect(w) EXCEPT !.view = FancyView(ClearPendingEffect(w))]

\* handleMetricDrop(item)
handleMetricDrop(w, item) ==
    [w EXCEPT !.pendingMetric = [isNull |-> FALSE, name |-> item.name],
              !.control = IF w.hooks THEN Append(@, item.name) ELSE @,
              !.confirmed = FALSE]

----------------------------------------------------------------------------
(* FancyBigNumber in use: the host sets the metric, the user drops metrics *)

\* props.metric: missing, or a Metric with a value
MetricProps ==
    { [given |-> FALSE, value |-> ""] } \cup
    { [given |-> TRUE, value |-> v] : v \in {"", "value", "revenue", "profit"} }

\* what the user drags over the chart
MetricItems ==
    { [type |-> "metric", hasValue |-> TRUE, is_dttm |-> FALSE, name |-> "revenue"],
      [type |-> "metricOption", hasValue |-> TRUE, is_dttm |-> FALSE, name |-> "profit"],
      [type |-> "metricOption", hasValue |-> TRUE, is_dttm |-> FALSE, name |-> ""],
      [type |-> "metric", hasValue |-> FALSE, is_dttm |-> FALSE, name |-> ""],
      [type |-> "column", hasValue |-> TRUE, is_dttm |-> FALSE, name |-> "region"] }

\* the component after its first render has settled
InitFancy ==
    /\ classes = LoadedClasses
    /\ registry = BuiltinRegistry
    /\ renderFn = <<DataFrameParam>>
    /\ options = [name |-> "Glyph Chart", description |-> "", arguments |-> << >>]
    /\ throwAt = NoThrow
    /\ chart = NoChart
    /\ last \in { Settle([op |-> "mount", metric |-> m, hooks |-> h,
                          pendingMetric |-> NoPending, deps |-> "none",
                          view |-> "none", control |-> << >>, confirmed |-> FALSE]) :
                     m \in MetricProps, h \in BOOLEAN }

\* a drop on the DropZone shown while no metric is configured
DropOnEmptyZone(item) ==
    /\ last.view = "dropZone"
    /\ \E i \in 1..Len(FlatMapAccept(<<"metric">>)) :
          FlatMapAccept(<<"metric">>)[i] = item.type
    /\ Len(last.control) < MaxDrops
    /\ last' = IF convertToDragItem(item).isNull THEN [last EXCEPT !.op = "dropOnZone"]
               ELSE Settle(handleMetricDrop([last EXCEPT !.op = "dropOnZone"],
                                            convertToDragItem(item)))
    /\ UNCHANGED <<classes, registry, renderFn, options, throwAt, chart>>

\* a drop on the rendered chart, whose wrapper is the drop target of useDrop
DropOnChart(item) ==
    /\ last.view = "chart"
    /\ \E i \in 1..Len(AcceptTypeMap("metric")) : AcceptTypeMap("metric")[i] = item.type
    /\ Len(last.control) < MaxDrops
    /\ last' = IF convertToDragItem(item).isNull THEN [last EXCEPT !.op = "dropOnChart"]
               ELSE Settle(handleMetricDrop([last EXCEPT !.op = "dropOnChart"],
                                            convertToDragItem(item)))
    /\ UNCHANGED <<classes, registry, renderFn, options, throwAt, chart>>

\* the host renders the component with another metric
HostUpdate(metric) ==
    /\ metric # last.metric
    /\ last' = Settle([last EXCEPT !.op = "hostUpdate", !.metric = metric,
                                   !.confirmed = @ \/ isMetricConfigured(metric) = "true"])
    /\ UNCHANGED <<classes, registry, renderFn, options, throwAt, chart>>

NextFancy ==
    \/ \E item \in MetricItems : DropOnEmptyZone(item)
    \/ \E item \in MetricItems : DropOnChart(item)
    \/ \E metric \in MetricProps : HostUpdate(metric)

SpecFancy == InitFancy /\ [][NextFancy]_vars

----------------------------------------------------------------------------
(* Properties of the pending drop (SpecFancy) *)

\* C25: whenever the component has settled with a configured metric, the
\* pending metric is null; and no dropped name is shown as pending once the
\* host has confirmed a metric after the drop and has then cleared the metric.
C25_PendingClearedOnArrival ==
    /\ isMetricConfigured(last.metric) = "true" => last.pendingMetric.isNull
    /\ last.view = "pending" => ~last.confirmed

\* a metric dropped on the rendered chart, confirmed by the host and cleared
\* again: the dropped name is shown as pending
C25_StalePending ==
    /\ last.op = "hostUpdate"
    /\ last.confirmed
    /\ last.view = "pending"
    /\ last.pendingMetric.name = "profit"

----------------------------------------------------------------------------
(* The control panel of charts with style arguments *)

S_Weight == <<"W","e","i","g","h","t">>
S_Plain == <<"P","l","a","i","n">>
N_weight == <<"w","e","i","g","h","t">>
N_plain == <<"p","l","a","i","n">>
N_precision == <<"p","r","e","c","i","s","i","o","n">>

WeightC == 16
PlainC == 17

\* class Weight extends Int { static types = [ColumnType.Metric]; static label = '' }
\* class Plain extends Color { static label = null }
PanelClasses ==
    SupersetClasses \o
    << [name |-> S_Weight, parent |-> IntC,
        own |-> [types |-> <<"metric">>, label |-> ""]],
       [name |-> S_Plain, parent |-> ColorC, own |-> [label |-> Null]] >>

\* the entries an explicit argument map is made of: the Int and Color classes
PanelPool ==
    { [key |-> N_metric, cls |-> MetricC],
      [key |-> N_title, cls |-> ArgumentC],
      [key |-> N_size, cls |-> FontSizeC],
      [key |-> N_precision, cls |-> PrecisionC],
      [key |-> N_width, cls |-> IntC],
      [key |-> N_weight, cls |-> WeightC],
      [key |-> N_color, cls |-> FontColorC],
      [key |-> N_fill, cls |-> BrandColorC],
      [key |-> N_plain, cls |-> PlainC] }

RECURSIVE PanelMaps(_)
PanelMaps(n) ==
    IF n = 0 THEN { << >> }
    ELSE LET shorter == PanelMaps(n - 1)
         IN  shorter \cup
             { Append(m, e) : m \in { q \in shorter : Len(q) = n - 1 },
                              e \in PanelPool }

InitPanel ==
    /\ classes = PanelClasses
    /\ registry = BuiltinRegistry
    /\ renderFn = <<DataFrameParam>>
    /\ options \in { [name |-> "Glyph Chart", description |-> "", arguments |-> m] :
                       m \in { q \in PanelMaps(MaxArgs) : DistinctKeys(q) } }
    /\ throwAt = NoThrow
    /\ chart = NoChart
    /\ last = [op |-> "load"]

NextPanel == CreateChart \/ GenerateControlPanel

SpecPanel == InitPanel /\ [][NextPanel]_vars

----------------------------------------------------------------------------
(* Properties of the control descriptors (SpecPanel) *)

\* the {name, config} rows of the Customize section under the name
CustomRows(name) ==
    UNION { { r \in RowsOf(last.sections[k]) : "name" \in DOMAIN r[1] /\ r[1].name = name } :
              k \in { j \in 1..Len(last.sections) : last.sections[j].label = "Customize" } }

LabelOf(config, c, name) ==
    IF Static(classes, c, "label") \in {"", Null}
    THEN config.label = name
    ELSE config.label = Static(classes, c, "label")

\* C26: every argument of an Int-derived class has one Customize row
\* {name, config} with a SliderControl of step 1 and the class's default, min and
\* max; every argument of a Color-derived class has one with a
\* ColorPickerControl whose default is hexToRgba of the class's default; the
\* label is the class's label, or the parameter name when that is empty or
\* null; the class's types list does not change this.
C26_ControlDescriptor ==
    last.op = "controlPanel" =>
        \A i \in 1..Len(chart.chartArguments) :
            LET name == chart.chartArguments[i].key
                c == chart.chartArguments[i].cls
            IN  /\ IntKind(c) =>
                    /\ Cardinality(CustomRows(name)) = 1
                    /\ \A r \in CustomRows(name) :
                         /\ r[1].config.type = "SliderControl"
                         /\ r[1].config.step = 1
                         /\ r[1].config.default = Static(classes, c, "default")
                         /\ r[1].config.min = Static(classes, c, "min")
                         /\ r[1].config.max = Static(classes, c, "max")
                         /\ LabelOf(r[1].config, c, name)
                /\ ColorKind(c) =>
                    /\ Cardinality(CustomRows(name)) = 1
                    /\ \A r \in CustomRows(name) :
                         /\ r[1].config.type = "ColorPickerControl"
                         /\ r[1].config.default = hexToRgba(Static(classes, c, "default"))
                         /\ LabelOf(r[1].config, c, name)

\* size: FontSize and plain: Plain in one chart: a slider from 12 to 200 labelled
\* 'Font Size', and a colour picker labelled with the parameter name
C26_Witness ==
    /\ last.op = "controlPanel"
    /\ chart.chartArguments = <<[key |-> N_size, cls |-> FontSizeC],
                                [key |-> N_plain, cls |-> PlainC]>>
    /\ \E r \in CustomRows(N_size) :
          /\ r[1].config.label = "Font Size"
          /\ r[1].config.min = 12 /\ r[1].config.max = 200 /\ r[1].config.default = 48
    /\ \E r \in CustomRows(N_plain) :
          /\ r[1].config.label = N_plain
          /\ r[1].config.default = [r |-> 0, g |-> 0, b |-> 0, a |-> 1]

\* weight: Weight, an Int class whose types list names the metric type: a slider
\* in Customize labelled with the parameter name, and no metric row
C26_TypesWitness ==
    /\ last.op = "controlPanel"
    /\ chart.chartArguments = <<[key |-> N_weight, cls |-> WeightC]>>
    /\ \E r \in CustomRows(N_weight) :
          r[1].config.type = "SliderControl" /\ r[1].config.label = N_weight
    /\ <<HostControl("metric")>> \notin RowsOf(last.sections[1])

----------------------------------------------------------------------------
(* Properties of the name tiers (Spec) *)

\* the positions of the registry whose key is part of the name, both in lower case
NameMatches(reg, name) ==
    { k \in 1..Len(reg) : includes(toLowerCase(name), toLowerCase(reg[k].key)) }

NoDeclaredMatch(reg, p) ==
    \A j \in 1..Len(p.type) : ~IsArgumentClass(p.type[j]) /\ ~NameRegistered(reg, p.type[j])

\* C24: the registry keeps Metric, Dimension, Int, Color, Argument in front of
\* the user's registrations; a parameter no declared-type tier resolves, whose
\* name contains a registered class name, gets the class of the earliest such
\* entry of the registry, whatever keyword the name contains as well.
C24_NameSubstringOrder ==
    /\ \A k \in 1..Len(BuiltinRegistry) : registry[k].key = BuiltinRegistry[k].key
    /\ last.op = "createChart" =>
         \A i \in 2..Len(renderFn) :
            (/\ Classified(i)
             /\ ~Overridden(renderFn[i].name)
             /\ renderFn[i].name # N_dataFrame
             /\ NoDeclaredMatch(last.registry, renderFn[i])
             /\ NameMatches(last.registry, renderFn[i].name) # {}) =>
                LET first == CHOOSE k \in NameMatches(last.registry, renderFn[i].name) :
                               \A j \in NameMatches(last.registry, renderFn[i].name) : k <= j
                IN  /\ MapHas(chart.chartArguments, renderFn[i].name)
                    /\ MapGet(chart.chartArguments, renderFn[i].name)
                         = last.registry[first].cls

\* fontColor without a resolvable type: Color by its name, although 'font' is a
\* keyword of Int
C24_Witness ==
    /\ last.op = "createChart"
    /\ throwAt = NoThrow
    /\ options.arguments = << >>
    /\ last.registry = BuiltinRegistry
    /\ renderFn[2] = [name |-> N_fontColor, type |-> <<UndefinedT>>]
    /\ PatternClass(N_fontColor) = IntC
    /\ MapGet(chart.chartArguments, N_fontColor) = ColorC

\* colorMetric without a resolvable type: Metric, registered before Color
C24_SeveralNamesWitness ==
    /\ last.op = "createChart"
    /\ throwAt = NoThrow
    /\ options.arguments = << >>
    /\ renderFn[2] = [name |-> N_colorMetric, type |-> <<UndefinedT>>]
    /\ MapGet(chart.chartArguments, N_colorMetric) = MapGet(last.registry, S_Metric)

----------------------------------------------------------------------------
(* Properties of the invocation (Spec) *)

\* C27: every name of chartArguments is one of the positional parameter names
\* of the chart, and the value the property bag holds under it is one of the
\* arguments of the call of the render function.
C27_ClassifiedReachRender ==
    last.op = "render" =>
        \A i \in 1..Len(chart.chartArguments) :
            LET name == chart.chartArguments[i].key
            IN  /\ \E k \in 1..Len(chart.parameterNames) : chart.parameterNames[k] = name
                /\ name \in DOMAIN last.props =>
                     \E k \in 2..Len(last.call) : last.call[k] = last.props[name]

\* xAxis comes from the explicit map only: the bag's value under it is not passed
C27_OverrideLost ==
    /\ last.op = "render"
    /\ throwAt = NoThrow
    /\ MapHas(chart.chartArguments, N_xAxis)
    /\ \A i \in 1..Len(renderFn) : renderFn[i].name # N_xAxis
    /\ N_xAxis \in DOMAIN last.props
    /\ \A k \in 1..Len(last.call) : last.call[k] # last.props[N_xAxis]

----------------------------------------------------------------------------
(* Properties of the property bag (SpecLifecycle) *)

\* C28: the bag transformProps returns holds under dataFrame, theme, width,
\* height, hooks and datasourceColumns the values derived from the host's call,
\* never the instance of a classified argument.
C28_InfrastructureKept ==
    last.op = "transformProps" =>
        \A k \in FixedParameters :
            /\ k \in DOMAIN last.props
            /\ last.props[k] = HostProps[k]

\* the render function declares width: the bag holds an Int under width
C28_WidthOverwritten ==
    /\ last.op = "transformProps"
    /\ MapHas(chart.chartArguments, N_width)
    /\ last.props[N_width] # HostProps[N_width]
    /\ last.props[N_width].cls = IntC

----------------------------------------------------------------------------
(* A chart with several arguments of one data kind, as the scatter chart *)

N_yAxis == <<"y","A","x","i","s">>

\* arguments: { xAxis: Dimension, yAxis: Dimension, metric: Metric } and further
\* arguments of the two kinds
ScatterPool ==
    { [key |-> N_xAxis, cls |-> DimensionC],
      [key |-> N_yAxis, cls |-> DimensionC],
      [key |-> N_series, cls |-> UserMetricC],
      [key |-> N_metric, cls |-> MetricC],
      [key |-> N_size, cls |-> MetricC],
      [key |-> N_title, cls |-> ArgumentC] }

RECURSIVE ScatterMaps(_)
ScatterMaps(n) ==
    IF n = 0 THEN { << >> }
    ELSE LET shorter == ScatterMaps(n - 1)
         IN  shorter \cup
             { Append(m, e) : m \in { q \in shorter : Len(q) = n - 1 },
                              e \in ScatterPool }

InitScatter ==
    /\ classes = SupersetClasses
    /\ registry = BuiltinRegistry
    /\ renderFn = <<DataFrameParam>>
    /\ options \in { [name |-> "Glyph Scatter Chart", description |-> "", arguments |-> m] :
                       m \in { q \in ScatterMaps(MaxArgs) : DistinctKeys(q) } }
    /\ throwAt = NoThrow
    /\ chart = NoChart
    /\ last = [op |-> "load"]

NextScatter ==
    \/ CreateChart
    \/ GenerateControlPanel
    \/ \E formData \in MetricForms \cup DimensionForms : TransformProps(formData)

SpecScatter == InitScatter /\ [][NextScatter]_vars

----------------------------------------------------------------------------
(* Properties of shared host controls (SpecScatter) *)

\* the elements of the form's lists after the first
LaterItems(form) ==
    UNION { { list.items[k] : k \in 2..Len(list.items) } :
              list \in { l \in {form.groupby, form.columns, form.metrics} : l.t = "array" } }

\* C29: the Query section has one groupby row per Dimension-kind argument;
\* transformProps gives all Dimension-kind arguments one value, the first
\* element of groupby when it has one, and all Metric-kind arguments one label;
\* no argument gets the second or a later element of a list of the form.
C29_SharedHostControl ==
    /\ last.op = "controlPanel" =>
         Cardinality({ k \in 1..Len(last.sections[1].controlSetRows) :
                         last.sections[1].controlSetRows[k] = <<HostControl("groupby")>> })
           = Cardinality(ArgsOf(DimensionKind))
    /\ last.op = "transformProps" =>
         /\ \A i \in ArgsOf(DimensionKind) :
              /\ IsStored(i)
              /\ \A j \in ArgsOf(DimensionKind) : Produced(j).value = Produced(i).value
              /\ (last.formData.groupby.t = "array" /\ Len(last.formData.groupby.items) >= 1)
                   => Produced(i).value = last.formData.groupby.items[1]
         /\ \A i \in ArgsOf(MetricKind) :
              /\ IsStored(i)
              /\ \A j \in ArgsOf(MetricKind) : Produced(j).value = Produced(i).value
         /\ \A i \in 1..Len(chart.chartArguments) :
              IsStored(i) =>
                 \A item \in LaterItems(last.formData) :
                    /\ Produced(i).value # item
                    /\ (item.t = "object" => Produced(i).value # item.label)

\* xAxis and yAxis of the scatter chart with groupby = ['region', 'city']: both
\* are 'region'
C29_Witness ==
    /\ last.op = "transformProps"
    /\ chart.chartArguments = <<[key |-> N_xAxis, cls |-> DimensionC],
                                [key |-> N_yAxis, cls |-> DimensionC]>>
    /\ last.formData.groupby = Array(<<Text("region"), Text("city")>>)
    /\ last.props[N_xAxis] = NewArgument(DimensionC, Text("region"))
    /\ last.props[N_yAxis] = NewArgument(DimensionC, Text("region"))

\* the panel of that chart: two groupby rows
C29_RowsWitness ==
    /\ last.op = "controlPanel"
    /\ chart.chartArguments = <<[key |-> N_xAxis, cls |-> DimensionC],
                                [key |-> N_yAxis, cls |-> DimensionC]>>
    /\ last.sections[1].controlSetRows =
          << <<HostControl("groupby")>>, <<HostControl("groupby")>>,
             <<HostControl("adhoc_filters")>> >>

----------------------------------------------------------------------------
(* Properties of the numeric configuration (SpecSuperset, SpecTypes) *)

\* every Int class has its default between its min and its max
ClassesConsistent ==
    \A c \in 1..Len(classes) :
        IntKind(c) =>
            /\ Static(classes, c, "min") <= Static(classes, c, "default")
            /\ Static(classes, c, "default") <= Static(classes, c, "max")

\* the Int instances of the property bag lie between min and max of their class
ValuesWithinRange ==
    last.op = "transformProps" =>
        \A i \in ArgsOf(IntKind) :
            /\ IsStored(i)
            /\ Static(classes, chart.chartArguments[i].cls, "min") <= Produced(i).numericValue
            /\ Produced(i).numericValue <= Static(classes, chart.chartArguments[i].cls, "max")

C30_DefaultBelowMin ==
    /\ last.op = "with"
    /\ last.base = IntC
    /\ DOMAIN last.options = {"default"}
    /\ Static(classes, last.result, "default") = 0
    /\ Static(classes, last.result, "min") = 8

====
